---- MODULE Spec2Model ----
(***************************************************************************)
(* Resume screening engine: EmbeddingGenerator, SimilarityCalculator and   *)
(* ScreeningPipeline of src/src/screening, as a state machine.             *)
(*                                                                         *)
(* Representation.                                                         *)
(*  - A Python str is a sequence of word tokens and separator tokens SP    *)
(*    (one run of whitespace).  "" is <<>>, " " is <<SP>>, "a b" is        *)
(*    <<"a", SP, "b">>.                                                    *)
(*  - A float is a fixed-point number: a score in [0,1] is an integer      *)
(*    number of thousandths (Scale), a weight an integer number of         *)
(*    hundredths (WeightScale).  A float operation whose exact result is   *)
(*    not representable rounds it (down), as a double operation rounds to  *)
(*    a representable double.                                              *)
(*  - A numpy vector is a sparse record [dim, w]: its length and its       *)
(*    non-zero entries by index.  TF-IDF entries are kept un-normalised    *)
(*    (tf * idf, idf in tenths): the code reads only a vector's direction  *)
(*    and whether it is all-zero.                                          *)
(***************************************************************************)
EXTENDS Integers, Sequences, FiniteSets, TLC

VARIABLES
    config,              \* ScreeningPipeline.config / EmbeddingGenerator.config
    hashseed,            \* the process's string hash seed (PYTHONHASHSEED)
    tfidf_vectorizer,    \* EmbeddingGenerator.tfidf_vectorizer: [vocabulary, idf]
    vectorizer_fitted,   \* EmbeddingGenerator.vectorizer_fitted
    is_trained,          \* ScreeningPipeline.is_trained
    binary_classifier,   \* ScreeningPipeline.binary_classifier
    clock,               \* datetime.now(), one tick per call
    call,                \* the last call: its operation, arguments and outcome
    since_reset,         \* history since construction or the last reset: first text, fits
    batch,               \* batch_screen_resumes in progress: its arguments, position and results
    threads,             \* concurrent screen calls: each thread's position in _generate_text_embedding
    sessions,            \* SessionManager.sessions, in insertion order
    session_history,     \* SessionManager.session_history: session id -> list of entries
    uuids                \* the values uuid.uuid4() has returned

vars == <<config, hashseed, tfidf_vectorizer, vectorizer_fitted, is_trained, binary_classifier,
          clock, call, since_reset, batch, threads, sessions, session_history, uuids>>

(***************************************************************************)
(* Bounds of the model.                                                    *)
(***************************************************************************)
MaxClock == 2        \* calls per behaviour
MaxBatch == 2        \* resumes per batch_screen_resumes call

(***************************************************************************)
(* Strings.                                                                *)
(***************************************************************************)
SP == " "

\* str.lower()
Lower(w) ==
    CASE w = "Python" -> "python"
      [] w = "SQL"    -> "sql"
      [] w = "Go"     -> "go"
      [] w = "C"      -> "c"
      [] w = "The"    -> "the"
      [] w = "Data"   -> "data"
      [] w = "MIT"    -> "mit"
      [] w = "BSc"    -> "bsc"
      [] w = "Experienced" -> "experienced"
      [] w = "Software"    -> "software"
      [] w = "Engineer"    -> "engineer"
      [] w = "Python."     -> "python."
      [] w = "SQL."        -> "sql."
      [] w = "Go."         -> "go."
      [] OTHER        -> w

\* ' '.join(parts): parts is a sequence of strs
RECURSIVE Join(_)
Join(parts) ==
    IF parts = <<>> THEN <<>>
    ELSE IF Len(parts) = 1 THEN parts[1]
    ELSE parts[1] \o <<SP>> \o Join(Tail(parts))

\* str.split(): the words of a str
Split(text) == SelectSeq(text, LAMBDA w : w # SP)

\* "not text or not text.strip()"
IsBlank(text) == Split(text) = <<>>

\* Flatten a sequence of sequences
RECURSIVE Flatten(_)
Flatten(ss) == IF ss = <<>> THEN <<>> ELSE ss[1] \o Flatten(Tail(ss))

Range(s) == {s[i] : i \in DOMAIN s}

RECURSIVE SumSeq(_)
SumSeq(s) == IF s = <<>> THEN 0 ELSE s[1] + SumSeq(Tail(s))

Max2(a, b) == IF a >= b THEN a ELSE b
Min2(a, b) == IF a <= b THEN a ELSE b

(***************************************************************************)
(* sklearn's TfidfVectorizer, as EmbeddingGenerator configures it.         *)
(***************************************************************************)
\* stop_words='english': the members of sklearn's list among the words used
EnglishStopWords == {"the", "with", "go", "of", "and", "at", "least"}

\* Alphabetical order of the lower-cased tokens (the order of vocabulary_ indices)
TokenOrder == <<"analytics", "bachelor", "bsc", "computer", "data", "degree", "etl",
                "experience", "mit", "pipelines", "python", "science", "sql", "years">>

RankOf == [tok \in Range(TokenOrder) |-> CHOOSE i \in 1..Len(TokenOrder) : TokenOrder[i] = tok]
Rank(tok) == RankOf[tok]

\* The runs of word characters of a lower-cased word ("5+" has the run "5")
WordRuns(w) ==
    CASE w = SP   -> <<>>
      [] w = "5+" -> <<"5">>
      [] OTHER    -> <<w>>

\* build_analyzer(): lowercase, token_pattern \w\w+ (two characters or more),
\* stop words removed
Tokenize(text) ==
    LET runs == Flatten([i \in 1..Len(text) |-> WordRuns(Lower(text[i]))])
    IN  SelectSeq(runs, LAMBDA w : Len(w) >= 2 /\ w \notin EnglishStopWords)

\* _word_ngrams: the unigrams, then the bigrams when ngram_range = (1, 2)
Ngrams(toks, ngram_max) ==
    [i \in 1..Len(toks) |-> <<toks[i]>>]
    \o (IF ngram_max >= 2 /\ Len(toks) >= 2
        THEN [i \in 1..(Len(toks) - 1) |-> <<toks[i], toks[i + 1]>>]
        ELSE <<>>)

Analyze(text, ngram_max) == Ngrams(Tokenize(text), ngram_max)

\* Occurrences of x in a sequence
Count(x, seq) == Cardinality({i \in DOMAIN seq : seq[i] = x})

\* Order of two terms as strings ("data" < "data science" < "python")
TermLess(a, b) ==
    \/ Rank(a[1]) < Rank(b[1])
    \/ /\ a[1] = b[1]
       /\ \/ Len(a) < Len(b)
          \/ Len(a) = 2 /\ Len(b) = 2 /\ Rank(a[2]) < Rank(b[2])

\* Index of term in the sorted vocabulary (vocabulary_[term] + 1)
TermIndex(term, vocabulary) ==
    Cardinality({t \in vocabulary : TermLess(t, term)}) + 1

\* smooth idf, ln((1 + n) / (1 + df)) + 1, in tenths
IdfTenths(n, df) ==
    CASE n = df           -> 10
      [] n = 2 /\ df = 1  -> 14
      [] n = 3 /\ df = 1  -> 17
      [] n = 3 /\ df = 2  -> 13
      [] OTHER            -> 10

\* _limit_features: the max_features terms of highest total frequency tf; among
\* equals the lower index stays (argsort of a short array is stable)
LimitFeatures(terms, tf, max_features) ==
    IF Cardinality(terms) <= max_features THEN terms
    ELSE {t \in terms :
            Cardinality({u \in terms :
                \/ tf[u] > tf[t]
                \/ tf[u] = tf[t] /\ TermLess(u, t)}) < max_features}

\* The terms of all the documents, before limiting
AllTerms(docs, ngram_max) ==
    UNION {Range(Analyze(docs[i], ngram_max)) : i \in 1..Len(docs)}

\* fit raises ValueError("empty vocabulary") when no document has a term
FitRaises(docs, ngram_max) == AllTerms(docs, ngram_max) = {}

\* The vectorizer a successful fit leaves: vocabulary_ and idf_
Fitted(docs, ngram_max, max_features) ==
    LET an  == [i \in 1..Len(docs) |-> Analyze(docs[i], ngram_max)]
        all == UNION {Range(an[i]) : i \in 1..Len(docs)}
        tf  == [t \in all |-> SumSeq([i \in 1..Len(docs) |-> Count(t, an[i])])]
        voc == LimitFeatures(all, tf, max_features)
        df  == [t \in voc |-> Cardinality({i \in 1..Len(docs) : Count(t, an[i]) > 0})]
    IN  [vocabulary |-> voc,
         idf        |-> [t \in voc |-> IdfTenths(Len(docs), df[t])]]

\* A newly constructed TfidfVectorizer: no vocabulary_
Unfitted == [vocabulary |-> {}, idf |-> <<>>]

\* transform([text])[0] under a fitted vectorizer: tf * idf by vocabulary index
Transform(vec, text, ngram_max) ==
    LET an  == Analyze(text, ngram_max)
        hit == vec.vocabulary \cap Range(an)
        idx == [t \in hit |-> TermIndex(t, vec.vocabulary)]
    IN  [dim |-> Cardinality(vec.vocabulary),
         w   |-> [i \in {idx[t] : t \in hit} |->
                    LET t == CHOOSE u \in hit : idx[u] = i
                    IN  Count(t, an) * vec.idf[t]]]

\* np.zeros(n)
Zeros(n) == [dim |-> n, w |-> <<>>]

\* np.allclose(v, 0)
AllZero(v) == DOMAIN v.w = {}

(***************************************************************************)
(* Configuration.  config.get(key, default) is applied at construction, so *)
(* a config is the record of the values the code reads.                    *)
(***************************************************************************)
DefaultMaxFeatures == 1000
SmallMaxFeatures == 2

DefaultWeights ==
    [skills |-> 35, experience |-> 25, education |-> 15, projects |-> 15, keywords |-> 10]

\* "similarity_weights" a caller may configure
SkillsOnlyWeights == [skills |-> 40]
ZeroWeights == [skills |-> 0, experience |-> 0]
SignedWeights == [skills |-> 100, experience |-> -50]
ExtraSectionWeights == [skills |-> 50, summary |-> 50]

MakeConfig(max_features, weights) ==
    [tfidf_max_features |-> max_features, similarity_weights |-> weights,
     model_version |-> "1.0"]

Configs ==
    {MakeConfig(DefaultMaxFeatures, DefaultWeights),
     MakeConfig(SmallMaxFeatures, DefaultWeights),
     MakeConfig(DefaultMaxFeatures, SkillsOnlyWeights),
     MakeConfig(DefaultMaxFeatures, ZeroWeights),
     MakeConfig(DefaultMaxFeatures, SignedWeights),
     MakeConfig(DefaultMaxFeatures, ExtraSectionWeights)}

\* ngram_range=(1, 2) of the persistent vectorizer
EmbeddingNgramMax == 2

(***************************************************************************)
(* EmbeddingGenerator.  An embedding state is [vectorizer, fitted].        *)
(***************************************************************************)
\* EmbeddingGenerator.__init__: a new vectorizer, not fitted
NewGenerator == [vectorizer |-> Unfitted, fitted |-> FALSE]

\* Mutant: the fit branch forgets "self.vectorizer_fitted = True"
GenerateTextEmbedding_FlagNotSet(cfg, st, text) ==
    IF IsBlank(text)
    THEN [embedding |-> Zeros(cfg.tfidf_max_features), path |-> "empty",
          vectorizer |-> st.vectorizer, fitted |-> st.fitted]
    ELSE IF FitRaises(<<text>>, EmbeddingNgramMax)
    THEN [embedding |-> Zeros(cfg.tfidf_max_features), path |-> "fit_error",
          vectorizer |-> st.vectorizer, fitted |-> st.fitted]
    ELSE LET v == Fitted(<<text>>, EmbeddingNgramMax, cfg.tfidf_max_features)
         IN  [embedding |-> Transform(v, text, EmbeddingNgramMax), path |-> "fit",
              vectorizer |-> v, fitted |-> FALSE]

\* Mutant: the guard is "if not text" alone, without text.strip()
GenerateTextEmbedding_NoStrip(cfg, st, text) ==
    IF text = <<>>
    THEN [embedding |-> Zeros(cfg.tfidf_max_features), path |-> "empty",
          vectorizer |-> st.vectorizer, fitted |-> st.fitted]
    ELSE IF ~st.fitted
    THEN IF FitRaises(<<text>>, EmbeddingNgramMax)
         THEN [embedding |-> Zeros(cfg.tfidf_max_features), path |-> "fit_error",
               vectorizer |-> st.vectorizer, fitted |-> st.fitted]
         ELSE LET v == Fitted(<<text>>, EmbeddingNgramMax, cfg.tfidf_max_features)
              IN  [embedding |-> Transform(v, text, EmbeddingNgramMax), path |-> "fit",
                   vectorizer |-> v, fitted |-> TRUE]
    ELSE [embedding |-> Transform(st.vectorizer, text, EmbeddingNgramMax),
          path |-> "transform", vectorizer |-> st.vectorizer, fitted |-> st.fitted]

\* _generate_text_embedding
GenerateTextEmbedding(cfg, st, text) ==
    IF IsBlank(text)
    THEN [embedding |-> Zeros(cfg.tfidf_max_features), path |-> "empty",
          vectorizer |-> st.vectorizer, fitted |-> st.fitted]
    ELSE IF ~st.fitted
    THEN IF FitRaises(<<text>>, EmbeddingNgramMax)
         THEN [embedding |-> Zeros(cfg.tfidf_max_features), path |-> "fit_error",
               vectorizer |-> st.vectorizer, fitted |-> st.fitted]
         ELSE LET v == Fitted(<<text>>, EmbeddingNgramMax, cfg.tfidf_max_features)
              IN  [embedding |-> Transform(v, text, EmbeddingNgramMax), path |-> "fit",
                   vectorizer |-> v, fitted |-> TRUE]
    ELSE IF st.vectorizer.vocabulary = {}
    THEN [embedding |-> Zeros(cfg.tfidf_max_features), path |-> "transform_error",
          vectorizer |-> st.vectorizer, fitted |-> st.fitted]
    ELSE [embedding |-> Transform(st.vectorizer, text, EmbeddingNgramMax),
          path |-> "transform", vectorizer |-> st.vectorizer, fitted |-> st.fitted]

\* batch_generate_embeddings
BatchGenerateEmbeddings(cfg, st, texts) ==
    IF texts = <<>>
    THEN [embeddings |-> <<>>, path |-> "empty",
          vectorizer |-> st.vectorizer, fitted |-> st.fitted]
    ELSE IF ~st.fitted
    THEN IF FitRaises(texts, EmbeddingNgramMax)
         THEN [embeddings |-> [i \in 1..Len(texts) |-> Zeros(cfg.tfidf_max_features)],
               path |-> "fit_error", vectorizer |-> st.vectorizer, fitted |-> st.fitted]
         ELSE LET v == Fitted(texts, EmbeddingNgramMax, cfg.tfidf_max_features)
              IN  [embeddings |-> [i \in 1..Len(texts) |->
                                      Transform(v, texts[i], EmbeddingNgramMax)],
                   path |-> "fit", vectorizer |-> v, fitted |-> TRUE]
    ELSE IF st.vectorizer.vocabulary = {}
    THEN [embeddings |-> [i \in 1..Len(texts) |-> Zeros(cfg.tfidf_max_features)],
          path |-> "transform_error", vectorizer |-> st.vectorizer, fitted |-> st.fitted]
    ELSE [embeddings |-> [i \in 1..Len(texts) |->
                             Transform(st.vectorizer, texts[i], EmbeddingNgramMax)],
          path |-> "transform", vectorizer |-> st.vectorizer, fitted |-> st.fitted]

\* The embedding state of the generator
EmbState == [vectorizer |-> tfidf_vectorizer, fitted |-> vectorizer_fitted]

\* Mutant: the reset makes a new vectorizer and leaves the flag as it is
ResetState_KeepsFlag == [vectorizer |-> Unfitted, fitted |-> vectorizer_fitted]

\* Mutant: the reset clears the flag and keeps the old vectorizer
ResetState_KeepsVectorizer == [vectorizer |-> tfidf_vectorizer, fitted |-> FALSE]

\* reset_vectorizer: a new TfidfVectorizer, the flag cleared
ResetState == [vectorizer |-> Unfitted, fitted |-> FALSE]

(***************************************************************************)
(* History kept for the properties: what the generator received since it   *)
(* was constructed or reset.                                               *)
(***************************************************************************)
\* Python's None
None == [none |-> TRUE]

\* Optional values of the history
Nothing == [some |-> FALSE]
Just(x) == [some |-> TRUE, val |-> x]

\* fresh: no text received yet; fresh_screen: the last screen_resume that
\* started on a fresh generator (kept across resets)
NoHistory == [fresh |-> TRUE, first |-> Nothing, first_with_terms |-> Nothing,
              fits |-> <<>>, reset_from |-> Nothing, fresh_screen |-> Nothing]

\* The history after one more request for the texts docs that took `path`
ReceivedBatch(h, docs, path) ==
    LET nonblank == SelectSeq(docs, LAMBDA t : ~IsBlank(t))
    IN  [fresh            |-> FALSE,
         first            |-> IF ~h.first.some /\ nonblank # <<>>
                              THEN Just(nonblank[1]) ELSE h.first,
         first_with_terms |-> IF ~h.first_with_terms.some
                                 /\ ~FitRaises(docs, EmbeddingNgramMax)
                              THEN Just(docs) ELSE h.first_with_terms,
         fits             |-> IF path = "fit" THEN Append(h.fits, docs) ELSE h.fits,
         reset_from       |-> h.reset_from,
         fresh_screen     |-> h.fresh_screen]

\* The history after one more text
Received(h, text, path) == ReceivedBatch(h, <<text>>, path)

NoCall == [op |-> "none"]
NoBatch == [active |-> FALSE]
NoThreads == <<>>

(***************************************************************************)
(* The texts handed to the EmbeddingGenerator's own entry points.          *)
(***************************************************************************)
EmbedTexts ==
    {<<>>, <<SP>>, <<"Go", SP, "C">>, <<"Python">>,
     <<"data", SP, "science", SP, "data">>, <<"SQL", SP, "the", SP, "data">>}

BatchTexts ==
    {<<>>, << <<"The">> >>, << <<>>, <<"Python">> >>,
     << <<"Python">>, <<"Python", SP, "SQL">> >>,
     << <<"SQL", SP, "the", SP, "data">>, <<"The">>, <<"data">> >>}

EmbedText(text) ==
    /\ LET r == GenerateTextEmbedding(config, EmbState, text)
       IN  /\ tfidf_vectorizer' = r.vectorizer
           /\ vectorizer_fitted' = r.fitted
           /\ call' = [op |-> "embed", text |-> text, path |-> r.path,
                       embedding |-> r.embedding, pre |-> EmbState, before |-> since_reset]
           /\ since_reset' = Received(since_reset, text, r.path)
    /\ UNCHANGED <<sessions, session_history, uuids, config, hashseed, is_trained, binary_classifier, clock, batch, threads>>

EmbedBatch(texts) ==
    /\ LET r == BatchGenerateEmbeddings(config, EmbState, texts)
       IN  /\ tfidf_vectorizer' = r.vectorizer
           /\ vectorizer_fitted' = r.fitted
           /\ call' = [op |-> "embed_batch", texts |-> texts, path |-> r.path,
                       embeddings |-> r.embeddings, pre |-> EmbState, before |-> since_reset]
           /\ since_reset' = ReceivedBatch(since_reset, texts, r.path)
    /\ UNCHANGED <<sessions, session_history, uuids, config, hashseed, is_trained, binary_classifier, clock, batch, threads>>

ResetVectorizer ==
    /\ batch = NoBatch
    /\ tfidf_vectorizer' = ResetState.vectorizer
    /\ vectorizer_fitted' = ResetState.fitted
    /\ since_reset' = [NoHistory EXCEPT !.reset_from = Just(EmbState),
                                         !.fresh_screen = since_reset.fresh_screen]
    /\ call' = [op |-> "reset"]
    /\ UNCHANGED <<sessions, session_history, uuids, config, hashseed, is_trained, binary_classifier, clock, batch, threads>>

InitEmbed ==
    /\ config \in {MakeConfig(DefaultMaxFeatures, DefaultWeights),
                   MakeConfig(SmallMaxFeatures, DefaultWeights)}
    /\ hashseed = 1
    /\ tfidf_vectorizer = NewGenerator.vectorizer
    /\ vectorizer_fitted = NewGenerator.fitted
    /\ is_trained = FALSE
    /\ binary_classifier = None
    /\ clock = 0
    /\ call = NoCall
    /\ since_reset = NoHistory
    /\ batch = NoBatch
    /\ threads = NoThreads
    /\ sessions = <<>>
    /\ session_history = <<>>
    /\ uuids = {}

(***************************************************************************)
(* SimilarityCalculator.  Similarities are thousandths.                    *)
(***************************************************************************)
Scale == 1000

\* np.clip(x, lo, hi)
Clip(x, lo, hi) == IF x < lo THEN lo ELSE IF x > hi THEN hi ELSE x

\* Integer square root, by bisection
RECURSIVE IsqrtIter(_, _, _)
IsqrtIter(n, lo, hi) ==
    IF lo >= hi THEN lo
    ELSE LET mid == (lo + hi + 1) \div 2
         IN  IF mid * mid <= n THEN IsqrtIter(n, mid, hi) ELSE IsqrtIter(n, lo, mid - 1)

Isqrt(n) == IsqrtIter(n, 0, Min2(n, 46340))

\* Largest m in 0..4 with p * 100^m within the integers' range
RECURSIVE Pow10(_)
Pow10(m) == IF m = 0 THEN 1 ELSE 10 * Pow10(m - 1)
Headroom(p) ==
    CHOOSE m \in 0..4 :
        /\ p <= (46340 * 46340) \div Pow10(2 * m)
        /\ m = 4 \/ p > (46340 * 46340) \div Pow10(2 * (m + 1))

Dot(w1, w2) ==
    LET common == DOMAIN w1 \cap DOMAIN w2
        RECURSIVE Sum(_)
        Sum(S) == IF S = {} THEN 0
                  ELSE LET i == CHOOSE x \in S : TRUE
                       IN  w1[i] * w2[i] + Sum(S \ {i})
    IN  Sum(common)

\* sklearn's normalize(X) of a non-zero row: each component divided by the
\* row's norm, a float division that is rounded, in thousandths
Normalize(w) ==
    LET m    == Headroom(Dot(w, w))
        norm == Isqrt(Dot(w, w) * Pow10(2 * m))
    IN  [i \in DOMAIN w |-> (w[i] * Scale * Pow10(m)) \div norm]

\* sklearn's cosine_similarity of two non-zero rows, in thousandths: the dot
\* product of the two normalized rows, each product rounded
CosineOf(w1, w2) ==
    LET n1 == Normalize(w1)
        n2 == Normalize(w2)
        RECURSIVE Sum(_)
        Sum(S) == IF S = {} THEN 0
                  ELSE LET i == CHOOSE x \in S : TRUE
                       IN  (n1[i] * n2[i]) \div Scale + Sum(S \ {i})
    IN  Sum(DOMAIN w1 \cap DOMAIN w2)

\* calculate_cosine_similarity without the np.clip
CalculateCosineSimilarity_Unclipped(e1, e2) ==
    IF AllZero(e1) \/ AllZero(e2) THEN 0
    ELSE IF e1.dim # e2.dim THEN 0
    ELSE CosineOf(e1.w, e2.w)

\* calculate_cosine_similarity: 0.0 for an all-zero vector; cosine_similarity
\* raises on rows of different lengths, which the except turns into 0.0
CalculateCosineSimilarity(e1, e2) ==
    IF AllZero(e1) \/ AllZero(e2) THEN 0
    ELSE IF e1.dim # e2.dim THEN 0
    ELSE Clip(CosineOf(e1.w, e2.w), 0, Scale)

\* calculate_jaccard_similarity with 0.0 for two empty sets
CalculateJaccardSimilarity_EmptyIsZero(set1, set2) ==
    IF Cardinality(set1 \cup set2) > 0
    THEN (Cardinality(set1 \cap set2) * Scale) \div Cardinality(set1 \cup set2)
    ELSE 0

\* calculate_jaccard_similarity
CalculateJaccardSimilarity(set1, set2) ==
    IF set1 = {} /\ set2 = {} THEN Scale
    ELSE IF Cardinality(set1 \cup set2) > 0
    THEN (Cardinality(set1 \cap set2) * Scale) \div Cardinality(set1 \cup set2)
    ELSE 0

\* a / b of two floats, b non-zero, rounded
Quotient(a, b) == IF b > 0 THEN a \div b ELSE (-a) \div (-b)

\* calculate_weighted_similarity without the length check: zip stops at the
\* shorter list
CalculateWeightedSimilarity_NoLengthCheck(similarities, weights) ==
    IF similarities = <<>> THEN 0
    ELSE IF SumSeq(weights) = 0 THEN 0
    ELSE LET n == Min2(Len(similarities), Len(weights))
             normalized_weights ==
                 [i \in 1..Len(weights) |-> Quotient(weights[i] * Scale, SumSeq(weights))]
             weighted_sum ==
                 SumSeq([i \in 1..n |-> (similarities[i] * normalized_weights[i]) \div Scale])
         IN  Clip(weighted_sum, 0, Scale)

\* calculate_weighted_similarity: weights are whole numbers, similarities
\* thousandths
CalculateWeightedSimilarity(similarities, weights) ==
    IF Len(similarities) # Len(weights) THEN 0
    ELSE IF similarities = <<>> THEN 0
    ELSE IF SumSeq(weights) = 0 THEN 0
    ELSE LET normalized_weights ==
                 [i \in 1..Len(weights) |-> Quotient(weights[i] * Scale, SumSeq(weights))]
             weighted_sum ==
                 SumSeq([i \in 1..Len(similarities) |->
                            (similarities[i] * normalized_weights[i]) \div Scale])
         IN  Clip(weighted_sum, 0, Scale)

\* ngram_range of the vectorizer calculate_tfidf_similarity builds
PairNgramMax == 1

\* calculate_tfidf_similarity: a vectorizer of its own, fitted on the two texts
\* np.clip(cosine_similarity(tfidf_matrix[0:1], tfidf_matrix[1:2])[0][0], 0.0, 1.0)
RowCosine(r1, r2) ==
    IF AllZero(r1) \/ AllZero(r2) THEN 0
    ELSE Clip(CosineOf(r1.w, r2.w), 0, Scale)

\* The two rows of vectorizer.fit_transform([text1, text2]), compared
PairSimilarity(v, text1, text2) ==
    RowCosine(Transform(v, text1, PairNgramMax), Transform(v, text2, PairNgramMax))

CalculateTfidfSimilarity(text1, text2) ==
    IF IsBlank(text1) \/ IsBlank(text2) THEN 0
    ELSE IF FitRaises(<<text1, text2>>, PairNgramMax) THEN 0
    ELSE PairSimilarity(Fitted(<<text1, text2>>, PairNgramMax,
                               Cardinality(AllTerms(<<text1, text2>>, PairNgramMax))),
                        text1, text2)

\* calculate_tfidf_similarity made to go through the generator's persistent
\* vectorizer
TfidfSimilarity_UsesGenerator(text1, text2) ==
    /\ LET r1 == GenerateTextEmbedding(config, EmbState, text1)
           r2 == GenerateTextEmbedding(config, [vectorizer |-> r1.vectorizer,
                                                fitted |-> r1.fitted], text2)
       IN  /\ tfidf_vectorizer' = r2.vectorizer
           /\ vectorizer_fitted' = r2.fitted
           /\ call' = [op |-> "tfidf", text1 |-> text1, text2 |-> text2,
                       similarity |-> CalculateCosineSimilarity(r1.embedding, r2.embedding),
                       pre |-> EmbState]
    /\ UNCHANGED <<sessions, session_history, uuids, config, hashseed, is_trained, binary_classifier, clock, since_reset,
                   batch, threads>>

\* calculate_tfidf_similarity(text1, text2), called on the calculator of a
\* pipeline whose generator is in any state
TfidfSimilarity(text1, text2) ==
    /\ call' = [op |-> "tfidf", text1 |-> text1, text2 |-> text2,
                similarity |-> CalculateTfidfSimilarity(text1, text2),
                pre |-> EmbState]
    /\ UNCHANGED <<sessions, session_history, uuids, config, hashseed, tfidf_vectorizer, vectorizer_fitted, is_trained,
                   binary_classifier, clock, since_reset, batch, threads>>

NextEmbed ==
    \/ \E text \in EmbedTexts : EmbedText(text)
    \/ \E texts \in BatchTexts : EmbedBatch(texts)
    \/ ResetVectorizer
    \/ \E text1, text2 \in EmbedTexts : TfidfSimilarity(text1, text2)

SpecEmbed == InitEmbed /\ [][NextEmbed]_vars

(***************************************************************************)
(* Resumes and job descriptions.  A Resume is the record of the fields the *)
(* screening code reads; a str field is a text, a skill is one word.       *)
(***************************************************************************)
Developer ==
    [summary    |-> <<"Data", SP, "analytics">>,
     skills     |-> << [category |-> "programming", items |-> <<"Python", "SQL">>] >>,
     experience |-> << [description |-> << <<"etl", SP, "pipelines">> >>, days |-> 730] >>,
     education  |-> << [institution |-> <<"MIT">>, degree |-> <<"BSc">>,
                        level |-> "bachelor", major |-> <<"computer", SP, "science">>] >>,
     projects   |-> << [name |-> <<"etl">>, description |-> <<"data", SP, "pipelines">>,
                        technologies |-> <<"Python">>] >>]

\* Every list empty, no summary
EmptyResume ==
    [summary |-> <<>>, skills |-> <<>>, experience |-> <<>>, education |-> <<>>,
     projects |-> <<>>]

\* Skills that the vectorizer's analyzer drops entirely ("go" is a stop word,
\* "c" is one character)
StopWordSkills ==
    [summary |-> <<>>,
     skills |-> << [category |-> "programming", items |-> <<"Go", "C">>] >>,
     experience |-> <<>>, education |-> <<>>, projects |-> <<>>]

\* An education entry of level EducationLevel.CERTIFICATE
Certified ==
    [summary    |-> <<>>,
     skills     |-> << [category |-> "programming", items |-> <<"Python">>] >>,
     experience |-> <<>>,
     education  |-> << [institution |-> <<"MIT">>, degree |-> <<"analytics">>,
                        level |-> "certificate", major |-> <<>>] >>,
     projects   |-> <<>>]

Resumes == {Developer, EmptyResume, StopWordSkills, Certified}

\* An object with a Resume's attributes whose project has no name (Resume
\* itself requires one): proj.name raises AttributeError
Unnamed ==
    [summary    |-> <<>>,
     skills     |-> << [category |-> "programming", items |-> <<"Python", "SQL">>] >>,
     experience |-> <<>>,
     education  |-> <<>>,
     projects   |-> << [description |-> <<"data", SP, "pipelines">>,
                        technologies |-> <<"Python">>] >>]

\* What a caller may put in a batch: a Resume, or an object that is not one
BatchItems == Resumes \cup {None, Unnamed}

DataJob ==
    [title                    |-> <<"Data", SP, "engineer">>,
     experience_level         |-> "mid",
     description              |-> <<"data", SP, "pipelines">>,
     requirements             |-> << <<"5+", SP, "years", SP, "experience">>,
                                     <<"bachelor", SP, "degree">> >>,
     preferred_qualifications |-> <<>>,
     responsibilities         |-> << <<"etl", SP, "pipelines">> >>,
     required_skills          |-> <<"Python", "SQL">>,
     preferred_skills         |-> <<"Go">>]

\* Only the required str fields, empty
BareJob ==
    [title |-> <<>>, experience_level |-> "entry", description |-> <<>>,
     requirements |-> <<>>, preferred_qualifications |-> <<>>, responsibilities |-> <<>>,
     required_skills |-> <<>>, preferred_skills |-> <<>>]

Jobs == {DataJob, BareJob}

\* resume.<attr> raises AttributeError on an object that is not a Resume
IsResume(resume) == "skills" \in DOMAIN resume

\* [skill for skills in resume.skills.values() for skill in skills]
ResumeSkills(resume) ==
    Flatten([i \in 1..Len(resume.skills) |-> resume.skills[i].items])

\* A sequence of words as the sequence of their one-word texts
AsTexts(words) == [i \in 1..Len(words) |-> <<words[i]>>]

\* f"{a} {b}"
Fmt2(a, b) == a \o <<SP>> \o b

\* proj.name of every project exists
HasProjectNames(resume) ==
    \A i \in 1..Len(resume.projects) : "name" \in DOMAIN resume.projects[i]

\* The texts generate_resume_embeddings embeds before it reads the projects
TextsBeforeProjects(resume) ==
    LET skills_text     == Join(AsTexts(ResumeSkills(resume)))
        experience_text == Join([i \in 1..Len(resume.experience) |->
                                    Join(resume.experience[i].description)])
        education_text  == Join([i \in 1..Len(resume.education) |->
                                    Fmt2(resume.education[i].degree,
                                         resume.education[i].major)])
    IN  << <<"skills", skills_text>>, <<"experience", experience_text>>,
           <<"education", education_text>> >>

\* The texts generate_resume_embeddings embeds, in its order
ResumeTexts(resume) ==
    LET skills_text     == Join(AsTexts(ResumeSkills(resume)))
        experience_text == Join([i \in 1..Len(resume.experience) |->
                                    Join(resume.experience[i].description)])
        education_text  == Join([i \in 1..Len(resume.education) |->
                                    Fmt2(resume.education[i].degree,
                                         resume.education[i].major)])
        projects_text   == Join([i \in 1..Len(resume.projects) |->
                                    Fmt2(resume.projects[i].name,
                                         resume.projects[i].description)])
    IN  << <<"skills", skills_text>>, <<"experience", experience_text>>,
           <<"education", education_text>>, <<"projects", projects_text>>,
           <<"full_resume", Join(<<resume.summary, skills_text, experience_text,
                                   education_text, projects_text>>)>> >>

\* The texts generate_job_embeddings embeds, in its order
JobTexts(job) ==
    LET skills_text           == Join(AsTexts(job.required_skills \o job.preferred_skills))
        requirements_text     == Join(job.requirements \o job.preferred_qualifications)
        responsibilities_text == Join(job.responsibilities)
    IN  << <<"skills", skills_text>>, <<"requirements", requirements_text>>,
           <<"responsibilities", responsibilities_text>>,
           <<"full_job", Join(<<job.description, skills_text, requirements_text,
                                responsibilities_text>>)>> >>

\* The calls of _generate_text_embedding one after another: the embeddings by
\* key, the paths taken, and the generator's state after the last
RECURSIVE EmbedAll(_, _, _)
\* The outcome r of the first call, followed by the outcomes of the rest
Embedded(text, r, rest) ==
    [embeddings |-> <<r.embedding>> \o rest.embeddings,
     paths      |-> <<r.path>> \o rest.paths,
     texts      |-> <<text>> \o rest.texts,
     state      |-> rest.state]

\* The calls after the first, made on the generator as the first (r) left it
EmbedRest(cfg, r, keyed) ==
    Embedded(keyed[1][2], r,
             EmbedAll(cfg, [vectorizer |-> r.vectorizer, fitted |-> r.fitted], Tail(keyed)))

EmbedAll(cfg, st, keyed) ==
    IF keyed = <<>>
    THEN [embeddings |-> <<>>, paths |-> <<>>, texts |-> <<>>, state |-> st]
    ELSE EmbedRest(cfg, GenerateTextEmbedding(cfg, st, keyed[1][2]), keyed)

(***************************************************************************)
(* Helpers of the ScreeningPipeline's scoring.                             *)
(***************************************************************************)
\* seq[:n]
Take(seq, n) == SubSeq(seq, 1, Min2(n, Len(seq)))

\* The iteration order of a set of strs is fixed by the process's hash seed:
\* one order per seed, over the strs the scoring puts in sets
HashSeeds == {1, 2}

HashOrder ==
    LET order == <<"BSc", "C", "Data", "Go", "MIT", "Python", "SQL", "analytics",
                   "bachelor", "computer", "data", "degree", "experience", "pipelines",
                   "python", "science", "sql", "years">>
    IN  [seed \in HashSeeds |->
            IF seed = 1 THEN order
            ELSE [i \in 1..Len(order) |-> order[Len(order) + 1 - i]]]

\* list(a_set)
SetToList(S, seed) == SelectSeq(HashOrder[seed], LAMBDA w : w \in S)

\* sorted(a_set) of lower-cased words
Sorted(S) == SelectSeq(TokenOrder, LAMBDA w : w \in S)

\* [word.lower() for word in text.split()]
LowerWords(text) == LET ws == Split(text) IN [i \in 1..Len(ws) |-> Lower(ws[i])]

\* The words _extract_keywords leaves out
CommonWords == {"that", "with", "from", "they", "have", "this", "will", "were", "been"}

\* The distinct elements of a sequence, in order of first occurrence
RECURSIVE Distinct(_)
Distinct(seq) ==
    IF seq = <<>> THEN <<>>
    ELSE <<seq[1]>> \o Distinct(SelectSeq(Tail(seq), LAMBDA w : w # seq[1]))

\* Counter(words).most_common(): by count, first seen first among equals
RECURSIVE MostCommon(_, _)
MostCommon(keys, words) ==
    IF keys = <<>> THEN <<>>
    ELSE LET best == CHOOSE i \in 1..Len(keys) :
                        /\ \A j \in 1..Len(keys) : Count(keys[j], words) <= Count(keys[i], words)
                        /\ \A j \in 1..(i - 1) : Count(keys[j], words) < Count(keys[i], words)
         IN  <<keys[best]>>
             \o MostCommon(SelectSeq(keys, LAMBDA w : w # keys[best]), words)

\* _extract_keywords
ExtractKeywords(text) ==
    LET important == SelectSeq(LowerWords(text),
                               LAMBDA w : Len(w) > 3 /\ w \notin CommonWords)
    IN  Take(MostCommon(Distinct(important), important), 20)

\* _find_common_keywords
FindCommonKeywords(text1, text2) ==
    LET words1 == {w \in Range(LowerWords(text1)) : Len(w) > 3}
        words2 == {w \in Range(LowerWords(text2)) : Len(w) > 3}
    IN  Take(Sorted(words1 \cap words2), 10)

\* _find_missing_keywords
FindMissingKeywords(resume_text, job_text) ==
    LET resume_words == Range(LowerWords(resume_text))
    IN  Take(SelectSeq(ExtractKeywords(job_text), LAMBDA kw : kw \notin resume_words), 10)

\* "key in text.lower()", for a key of one word
ContainsWord(text, key) == key \in Range(LowerWords(text))

\* "phrase in text.lower()", for a phrase of words separated by single spaces
ContainsPhrase(text, phrase) ==
    LET low == LowerWords(text)
    IN  \E i \in 1..Len(low) :
            /\ i + Len(phrase) - 1 <= Len(low)
            /\ SubSeq(low, i, i + Len(phrase) - 1) = phrase

\* int(match.group(1)) of a word that is (\d+)\+?, -1 for any other word
Digits(w) ==
    CASE w \in {"5+", "5"} -> 5
      [] w \in {"3+", "3"} -> 3
      [] OTHER             -> -1

\* (\d+)\+?\s*years?\s*(?:of\s*)?(?:relevant\s*)?experience, matched at word i
YearsExperienceAt(ws, i, relevant) ==
    LET j == IF i + 2 <= Len(ws) /\ ws[i + 2] = "of" THEN i + 3 ELSE i + 2
        k == IF relevant /\ j <= Len(ws) /\ ws[j] = "relevant" THEN j + 1 ELSE j
    IN  /\ Digits(ws[i]) >= 0
        /\ i + 1 <= Len(ws) /\ ws[i + 1] \in {"year", "years"}
        /\ k <= Len(ws) /\ ws[k] = "experience"

\* minimum\s*(?:of\s*)?(\d+)\s*years?, matched at word i: the index of the number
MinimumYearsAt(ws, i) ==
    LET j == IF i + 1 <= Len(ws) /\ ws[i + 1] = "of" THEN i + 2 ELSE i + 1
    IN  IF /\ ws[i] = "minimum"
           /\ j + 1 <= Len(ws)
           /\ ws[j] \in {"5", "3"}
           /\ ws[j + 1] \in {"year", "years"}
        THEN j ELSE 0

\* _extract_required_experience
ExtractRequiredExperience(job) ==
    LET ws   == LowerWords(Join(job.requirements))
        at1  == {i \in 1..Len(ws) : YearsExperienceAt(ws, i, FALSE)}
        at2  == {i \in 1..Len(ws) : YearsExperienceAt(ws, i, TRUE)}
        at3  == {i \in 1..Len(ws) : MinimumYearsAt(ws, i) > 0}
        first(S) == CHOOSE i \in S : \A j \in S : i <= j
    IN  IF at1 # {} THEN Digits(ws[first(at1)])
        ELSE IF at2 # {} THEN Digits(ws[first(at2)])
        ELSE IF at3 # {} THEN Digits(ws[MinimumYearsAt(ws, first(at3))])
        ELSE CASE job.experience_level = "entry"     -> 1
               [] job.experience_level = "mid"       -> 3
               [] job.experience_level = "senior"    -> 5
               [] job.experience_level = "lead"      -> 8
               [] job.experience_level = "executive" -> 10
               [] OTHER                              -> 3

\* at\s*least\s*(\d+)\s*years?, matched at word i: the index of the number
AtLeastYearsAt(ws, i) ==
    IF /\ ws[i] = "at"
       /\ i + 3 <= Len(ws)
       /\ ws[i + 1] = "least"
       /\ ws[i + 2] \in {"5", "3"}
       /\ ws[i + 3] \in {"year", "years"}
    THEN i + 2 ELSE 0

\* FeatureExtractor._extract_required_experience_years, the 'requires_experience'
\* feature of extract_job_features
ExtractRequiredExperienceYears(requirements) ==
    LET ws   == LowerWords(Join(requirements))
        at1  == {i \in 1..Len(ws) : YearsExperienceAt(ws, i, FALSE)}
        at2  == {i \in 1..Len(ws) : MinimumYearsAt(ws, i) > 0}
        at3  == {i \in 1..Len(ws) : AtLeastYearsAt(ws, i) > 0}
        first(S) == CHOOSE i \in S : \A j \in S : i <= j
    IN  IF at1 # {} THEN Digits(ws[first(at1)])
        ELSE IF at2 # {} THEN Digits(ws[MinimumYearsAt(ws, first(at2))])
        ELSE IF at3 # {} THEN Digits(ws[AtLeastYearsAt(ws, first(at3))])
        ELSE 0

(***************************************************************************)
(* ScreeningPipeline: section scores.  A SectionScore is [score,           *)
(* matched_keywords, missing_keywords, feedback]; a feedback str is the    *)
(* record of the template chosen and the values formatted into it.         *)
(***************************************************************************)
\* The embeddings of generate_*_embeddings by key
ByKey(keyed, embeddings) ==
    [k \in {keyed[i][1] : i \in 1..Len(keyed)} |->
        embeddings[CHOOSE i \in 1..Len(keyed) : keyed[i][1] = k]]

\* len(matched) / max(len(job_skills), 1) if job_skills else 0.0
MatchRatio(matched, job_skills) ==
    IF job_skills # <<>> THEN (Len(matched) * Scale) \div Max2(Len(job_skills), 1) ELSE 0

\* _score_skills_section
ScoreSkillsSection(seed, resume, job, remb, jemb, explain) ==
    LET resume_skills == ResumeSkills(resume)
        job_skills    == job.required_skills \o job.preferred_skills
        matched       == SetToList(Range(resume_skills) \cap Range(job_skills), seed)
        missing       == SetToList(Range(job_skills) \ Range(resume_skills), seed)
        embedding_similarity == CalculateCosineSimilarity(remb.skills, jemb.skills)
        combined      == (7 * MatchRatio(matched, job_skills) + 3 * embedding_similarity) \div 10
    IN  [score            |-> Clip(combined, 0, Scale),
         matched_keywords |-> Take(matched, 10),
         missing_keywords |-> Take(missing, 10),
         feedback         |-> IF explain
                              THEN [template |-> "skills_explained",
                                    count |-> Len(matched), listed |-> Take(matched, 5),
                                    consider |-> Take(missing, 3)]
                              ELSE [template |-> "skills_match",
                                    count |-> Len(matched), of |-> Len(job_skills)]]

\* " ".join(" ".join(exp.description) for exp in resume.experience)
ExperienceText(resume) ==
    Join([i \in 1..Len(resume.experience) |-> Join(resume.experience[i].description)])

\* " ".join(job_description.responsibilities + job_description.requirements)
JobText(job) == Join(job.responsibilities \o job.requirements)

\* _score_experience_section
ScoreExperienceSection(resume, job, remb, jemb, explain) ==
    LET experience_text  == ExperienceText(resume)
        job_text         == JobText(job)
        embedding_similarity ==
            CalculateCosineSimilarity(remb.experience, jemb.responsibilities)
        tfidf_similarity == CalculateTfidfSimilarity(experience_text, job_text)
        experience_years == Len(resume.experience) * 2
        required         == ExtractRequiredExperience(job)
        experience_match == Min2((experience_years * Scale) \div Max2(required, 1), Scale)
        combined         == (4 * embedding_similarity + 4 * tfidf_similarity
                             + 2 * experience_match) \div 10
        matched          == FindCommonKeywords(experience_text, job_text)
        missing          == FindMissingKeywords(experience_text, job_text)
    IN  [score            |-> Clip(combined, 0, Scale),
         matched_keywords |-> Take(matched, 10),
         missing_keywords |-> Take(missing, 10),
         feedback         |-> IF explain
                              THEN [template |-> "experience_explained",
                                    years |-> experience_years,
                                    alignment |-> Take(matched, 3),
                                    consider |-> Take(missing, 3)]
                              ELSE [template |-> "experience_relevance",
                                    value |-> combined]]

\* The levels the feedback's max(..., key=[...].index) knows, in its order
RankedLevels == <<"high_school", "associate", "bachelor", "master", "doctorate">>

\* The feedback of _score_education_section raises ValueError: list.index of a
\* level that is not in the list
EducationRaises(resume, explain) ==
    /\ explain
    /\ \E i \in 1..Len(resume.education) :
          resume.education[i].level \notin Range(RankedLevels)

\* relevant_fields of _score_education_section
RelevantFields ==
    {<<"computer", "science">>, <<"engineering">>, <<"data", "science">>,
     <<"mathematics">>, <<"technology">>}

\* _score_education_section with the empty-education feedback given whatever explain is
ScoreEducationSection_FeedbackIgnoresExplain(resume, job, explain) ==
    LET edu        == resume.education
        levels     == {edu[i].level : i \in 1..Len(edu)}
        fieldOf(e) == IF e.major # <<>> THEN e.major ELSE e.degree
        fields     == SelectSeq([i \in 1..Len(edu) |-> fieldOf(edu[i])],
                                LAMBDA f : f # <<>>)
        field_match == \E i \in 1..Len(fields) :
                          \E f \in RelevantFields : ContainsPhrase(fields[i], f)
        score      == IF edu = <<>> THEN 0
                      ELSE (IF levels \cap {"bachelor", "master", "doctorate"} # {}
                            THEN 600 ELSE 0)
                           + (IF field_match THEN 300 ELSE 0)
                           + (IF levels \cap {"master", "doctorate"} # {} THEN 100 ELSE 0)
        requirements_text == Join(job.requirements)
        missing    == (IF ContainsWord(requirements_text, "bachelor")
                          /\ "bachelor" \notin levels
                       THEN <<"Bachelor's degree">> ELSE <<>>)
                      \o (IF ContainsWord(requirements_text, "master")
                             /\ "master" \notin levels
                          THEN <<"Master's degree">> ELSE <<>>)
        rank(e)    == CHOOSE r \in 1..Len(RankedLevels) : RankedLevels[r] = e.level
        highest    == edu[CHOOSE i \in 1..Len(edu) :
                             /\ \A j \in 1..Len(edu) : rank(edu[j]) <= rank(edu[i])
                             /\ \A j \in 1..(i - 1) : rank(edu[j]) < rank(edu[i])]
    IN  [score            |-> Clip(score, 0, Scale),
         matched_keywords |-> IF edu # <<>> /\ field_match THEN fields ELSE <<>>,
         missing_keywords |-> missing,
         feedback         |-> IF edu = <<>>
                              THEN [template |-> "no_education"]
                              ELSE IF ~explain
                              THEN [template |-> "education_match", value |-> score]
                              ELSE [template |-> "education_explained",
                                    degree |-> highest.degree,
                                    institution |-> highest.institution,
                                    relevant |-> field_match]]

\* _score_education_section, when it does not raise
ScoreEducationSection(resume, job, explain) ==
    LET edu        == resume.education
        levels     == {edu[i].level : i \in 1..Len(edu)}
        fieldOf(e) == IF e.major # <<>> THEN e.major ELSE e.degree
        fields     == SelectSeq([i \in 1..Len(edu) |-> fieldOf(edu[i])],
                                LAMBDA f : f # <<>>)
        field_match == \E i \in 1..Len(fields) :
                          \E f \in RelevantFields : ContainsPhrase(fields[i], f)
        score      == IF edu = <<>> THEN 0
                      ELSE (IF levels \cap {"bachelor", "master", "doctorate"} # {}
                            THEN 600 ELSE 0)
                           + (IF field_match THEN 300 ELSE 0)
                           + (IF levels \cap {"master", "doctorate"} # {} THEN 100 ELSE 0)
        requirements_text == Join(job.requirements)
        missing    == (IF ContainsWord(requirements_text, "bachelor")
                          /\ "bachelor" \notin levels
                       THEN <<"Bachelor's degree">> ELSE <<>>)
                      \o (IF ContainsWord(requirements_text, "master")
                             /\ "master" \notin levels
                          THEN <<"Master's degree">> ELSE <<>>)
        rank(e)    == CHOOSE r \in 1..Len(RankedLevels) : RankedLevels[r] = e.level
        highest    == edu[CHOOSE i \in 1..Len(edu) :
                             /\ \A j \in 1..Len(edu) : rank(edu[j]) <= rank(edu[i])
                             /\ \A j \in 1..(i - 1) : rank(edu[j]) < rank(edu[i])]
    IN  [score            |-> Clip(score, 0, Scale),
         matched_keywords |-> IF edu # <<>> /\ field_match THEN fields ELSE <<>>,
         missing_keywords |-> missing,
         feedback         |-> IF ~explain
                              THEN [template |-> "education_match", value |-> score]
                              ELSE IF edu = <<>>
                              THEN [template |-> "no_education"]
                              ELSE [template |-> "education_explained",
                                    degree |-> highest.degree,
                                    institution |-> highest.institution,
                                    relevant |-> field_match]]

\* _score_projects_section
ScoreProjectsSection(seed, resume, job, explain) ==
    IF resume.projects = <<>>
    THEN [score |-> 0, matched_keywords |-> <<>>,
          missing_keywords |-> <<"Personal projects", "Portfolio">>,
          feedback |-> [template |-> "no_projects"]]
    ELSE LET proj         == resume.projects
             technologies == Flatten([i \in 1..Len(proj) |-> proj[i].technologies])
             descriptions == Join([i \in 1..Len(proj) |-> proj[i].description])
             job_skills   == job.required_skills \o job.preferred_skills
             matched      == SetToList(Range(technologies) \cap Range(job_skills), seed)
             missing      == SetToList(Range(job_skills) \ Range(technologies), seed)
             description_similarity == CalculateTfidfSimilarity(descriptions, JobText(job))
             combined     == (6 * MatchRatio(matched, job_skills)
                              + 4 * description_similarity) \div 10
         IN  [score            |-> Clip(combined, 0, Scale),
              matched_keywords |-> Take(matched, 10),
              missing_keywords |-> Take(missing, 10),
              feedback         |-> IF explain
                                   THEN [template |-> "projects_explained",
                                         count |-> Len(matched),
                                         alignment |-> Take(matched, 3),
                                         consider |-> Take(missing, 2)]
                                   ELSE [template |-> "project_relevance",
                                         value |-> combined]]

\* _extract_full_resume_text
ExtractFullResumeText(resume) ==
    LET parts ==
            <<resume.summary>>
            \o AsTexts(ResumeSkills(resume))
            \o Flatten([i \in 1..Len(resume.experience) |-> resume.experience[i].description])
            \o Flatten([i \in 1..Len(resume.education) |->
                          <<resume.education[i].degree, resume.education[i].major,
                            resume.education[i].institution>>])
            \o Flatten([i \in 1..Len(resume.projects) |->
                          <<resume.projects[i].name, resume.projects[i].description>>
                          \o AsTexts(resume.projects[i].technologies)])
    IN  Join(SelectSeq(parts, LAMBDA t : t # <<>>))

\* _score_keyword_matching
ScoreKeywordMatching(seed, resume, job, explain) ==
    LET resume_text     == ExtractFullResumeText(resume)
        job_text        == Join(<<job.description, Join(job.requirements),
                                  Join(job.responsibilities)>>)
        tfidf_similarity == CalculateTfidfSimilarity(resume_text, job_text)
        resume_keywords == ExtractKeywords(resume_text)
        job_keywords    == ExtractKeywords(job_text)
        matched         == SetToList(Range(resume_keywords) \cap Range(job_keywords), seed)
        missing         == SetToList(Range(job_keywords) \ Range(resume_keywords), seed)
        keyword_density == MatchRatio(matched, job_keywords)
        combined        == (7 * tfidf_similarity + 3 * keyword_density) \div 10
    IN  [score            |-> Clip(combined, 0, Scale),
         matched_keywords |-> Take(matched, 15),
         missing_keywords |-> Take(missing, 15),
         feedback         |-> IF explain
                              THEN [template |-> "keywords_explained",
                                    count |-> Len(matched), of |-> Len(job_keywords),
                                    consider |-> Take(missing, 5)]
                              ELSE [template |-> "keyword_match", value |-> combined]]

\* The keys of section_scores, in insertion order
SectionOrder == <<"skills", "experience", "education", "projects", "keywords">>

\* _calculate_section_scores, when the education feedback does not raise
CalculateSectionScores(seed, resume, job, remb, jemb, explain) ==
    [skills     |-> ScoreSkillsSection(seed, resume, job, remb, jemb, explain),
     experience |-> ScoreExperienceSection(resume, job, remb, jemb, explain),
     education  |-> ScoreEducationSection(resume, job, explain),
     projects   |-> ScoreProjectsSection(seed, resume, job, explain),
     keywords   |-> ScoreKeywordMatching(seed, resume, job, explain)]

\* Sum of f over a finite set
RECURSIVE SumOver(_, _)
SumOver(S, f) ==
    IF S = {} THEN 0
    ELSE LET x == CHOOSE y \in S : TRUE IN f[x] + SumOver(S \ {x}, f)

\* A weight is a number of hundredths: 1.0 is WeightScale
WeightScale == 100

\* score * weight, a float product: rounded (down) to a representable value
Weighted(score, weight) == (score * weight) \div WeightScale

\* Mutant: the weight of every configured section is counted, scored or not
CalculateWeightedScore_AllWeights(weights, section_scores) ==
    LET present      == DOMAIN weights \cap DOMAIN section_scores
        total_score  == SumOver(present, [k \in present |->
                                             Weighted(section_scores[k].score, weights[k])])
        total_weight == SumOver(DOMAIN weights, weights)
    IN  IF total_weight > 0 THEN (total_score * WeightScale) \div total_weight ELSE 0

\* _calculate_weighted_score: each product and the quotient are rounded
CalculateWeightedScore(weights, section_scores) ==
    LET present      == DOMAIN weights \cap DOMAIN section_scores
        total_score  == SumOver(present, [k \in present |->
                                             Weighted(section_scores[k].score, weights[k])])
        total_weight == SumOver(present, weights)
    IN  IF total_weight > 0 THEN (total_score * WeightScale) \div total_weight ELSE 0

\* Mutant: the comparison is case-sensitive
AnalyzeSkillGaps_CaseSensitive(resume, job) ==
    Take(SelectSeq(job.required_skills, LAMBDA w : w \notin Range(ResumeSkills(resume))), 5)

\* _analyze_skill_gaps
AnalyzeSkillGaps(resume, job) ==
    LET resume_skills == {Lower(w) : w \in Range(ResumeSkills(resume))}
    IN  Take(SelectSeq(job.required_skills, LAMBDA w : Lower(w) \notin resume_skills), 5)

\* Mutant: the restructure entry is added from two low sections on
GenerateRecommendations_TwoLowSections(section_scores, skill_gaps) ==
    LET low == {k \in DOMAIN section_scores : section_scores[k].score < 500}
    IN  Take((IF section_scores.skills.score < 700
              THEN << [template |-> "strengthen_skills", adding |-> Take(skill_gaps, 3)] >>
              ELSE <<>>)
             \o (IF section_scores.experience.score < 600
                 THEN << [template |-> "enhance_experience"] >> ELSE <<>>)
             \o (IF section_scores.projects.score < 500
                 THEN << [template |-> "add_projects"] >> ELSE <<>>)
             \o (IF section_scores.keywords.score < 600
                 THEN << [template |-> "incorporate_terms",
                          terms |-> Take(section_scores.keywords.missing_keywords, 3)] >>
                 ELSE <<>>)
             \o (IF Cardinality(low) >= 2
                 THEN << [template |-> "restructure"] >> ELSE <<>>),
             5)

\* _generate_recommendations
GenerateRecommendations(section_scores, skill_gaps) ==
    LET low == {k \in DOMAIN section_scores : section_scores[k].score < 500}
    IN  Take((IF section_scores.skills.score < 700
              THEN << [template |-> "strengthen_skills", adding |-> Take(skill_gaps, 3)] >>
              ELSE <<>>)
             \o (IF section_scores.experience.score < 600
                 THEN << [template |-> "enhance_experience"] >> ELSE <<>>)
             \o (IF section_scores.projects.score < 500
                 THEN << [template |-> "add_projects"] >> ELSE <<>>)
             \o (IF section_scores.keywords.score < 600
                 THEN << [template |-> "incorporate_terms",
                          terms |-> Take(section_scores.keywords.missing_keywords, 3)] >>
                 ELSE <<>>)
             \o (IF Cardinality(low) > 2
                 THEN << [template |-> "restructure"] >> ELSE <<>>),
             5)

\* _generate_match_explanation: the parts joined into the explanation
GenerateMatchExplanation(section_scores, overall_score, skill_gaps) ==
    << [part |-> "overall",
        band |-> IF overall_score >= 800 THEN "excellent"
                 ELSE IF overall_score >= 600 THEN "good"
                 ELSE IF overall_score >= 400 THEN "moderate"
                 ELSE "substantial"] >>
    \o [i \in 1..Len(SectionOrder) |->
          LET sc == section_scores[SectionOrder[i]].score
          IN  [part |-> SectionOrder[i],
               band |-> IF sc >= 700 THEN "Strong match"
                        ELSE IF sc >= 500 THEN "Moderate match"
                        ELSE "Needs improvement",
               value |-> sc]]
    \o (IF skill_gaps # <<>>
        THEN << [part |-> "gaps", missing |-> Take(skill_gaps, 3)] >> ELSE <<>>)

(***************************************************************************)
(* ScreeningPipeline: the binary classifier.  An estimator is [model_type, *)
(* fitted, X, y]; its prediction is read as the label of the nearest       *)
(* training vector, a fixed function of the training data and the vector.  *)
(***************************************************************************)
\* round(total_days / 365.25, 1), in tenths of a year
CalculateYearsExperience(experience_list) ==
    LET total_days == SumSeq([i \in 1..Len(experience_list) |->
                                 Max2(experience_list[i].days, 0)])
    IN  (total_days * 80 + 1461) \div 2922

\* _prepare_feature_vector: of the five entries only "years_experience" is a
\* key of the extracted features, the other four are the defaults 0
PrepareFeatureVector(resume) ==
    <<CalculateYearsExperience(resume.experience), 0, 0, 0, 0>>

\* estimator.predict([vector])[0] of a fitted estimator
Predict(classifier, vector) ==
    LET dist(i) == IF classifier.X[i][1] >= vector[1]
                   THEN classifier.X[i][1] - vector[1]
                   ELSE vector[1] - classifier.X[i][1]
        near    == CHOOSE i \in 1..Len(classifier.X) :
                      /\ \A j \in 1..Len(classifier.X) : dist(i) <= dist(j)
                      /\ \A j \in 1..(i - 1) : dist(i) < dist(j)
    IN  classifier.y[near]

\* _get_binary_prediction: Optional[bool]; predict on an estimator that was
\* never fitted raises, which the except turns into None
GetBinaryPrediction(trained, classifier, resume) ==
    IF ~trained \/ classifier = None THEN Nothing
    ELSE IF ~classifier.fitted THEN Nothing
    ELSE Just(Predict(classifier, PrepareFeatureVector(resume)))

\* estimator.fit(X, y) raises: no samples, or a LogisticRegression given one class
FitClassifierRaises(model_type, X, y) ==
    \/ X = <<>>
    \/ model_type # "random_forest" /\ Cardinality(Range(y)) < 2

\* Mutant: is_trained is set before fit, so a fit that raises leaves it set
TrainBinaryClassifierResult_FlagBeforeFit(trained, classifier, training_data, model_type) ==
    [raised |-> training_data = <<>>, is_trained |-> TRUE,
     binary_classifier |-> [model_type |-> "random_forest", fitted |-> training_data # <<>>,
                            X |-> <<<<0, 0, 0, 0, 0>>>>, y |-> <<TRUE>>]]

\* train_binary_classifier: the pipeline's [is_trained, binary_classifier] after
\* the call, and whether it raised
TrainBinaryClassifierResult(trained, classifier, training_data, model_type) ==
    IF \E i \in 1..Len(training_data) : ~IsResume(training_data[i][1])
    THEN [raised |-> TRUE, is_trained |-> trained, binary_classifier |-> classifier]
    ELSE LET X == [i \in 1..Len(training_data) |-> PrepareFeatureVector(training_data[i][1])]
             y == [i \in 1..Len(training_data) |-> training_data[i][3]]
             estimator == [model_type |-> IF model_type = "random_forest"
                                          THEN "random_forest" ELSE "logistic_regression",
                           fitted |-> FALSE, X |-> <<>>, y |-> <<>>]
         IN  IF FitClassifierRaises(model_type, X, y)
             THEN [raised |-> TRUE, is_trained |-> trained, binary_classifier |-> estimator]
             ELSE [raised |-> FALSE, is_trained |-> TRUE,
                   binary_classifier |-> [estimator EXCEPT !.fitted = TRUE, !.X = X, !.y = y]]

(***************************************************************************)
(* ScreeningPipeline.screen_resume.                                        *)
(***************************************************************************)
\* Mutant: a ScreeningResult whose overall_score field has no ge / le bounds
Validates_Unconstrained(overall_score) == TRUE

\* ScreeningResult's overall_score: Field(..., ge=0.0, le=1.0)
Validates(overall_score) == overall_score >= 0 /\ overall_score <= Scale

\* The outcome of a screen_resume that raised `error`, leaving the generator in `st`
Raised(error, emb) ==
    [outcome |-> "raised", error |-> error, result |-> None, state |-> emb.state,
     texts |-> emb.texts, paths |-> emb.paths, prediction |-> Nothing]

NoEmbeddings(st) == [embeddings |-> <<>>, paths |-> <<>>, texts |-> <<>>, state |-> st]

\* Lines 81-84 of screen_resume: the section scores from the embeddings emb of
\* the texts rk and jk, unless the education feedback raises
SectionAnalysis(seed, resume, job, explain, rk, jk, emb) ==
    [emb            |-> [emb EXCEPT !.embeddings = <<>>],
     raises         |-> EducationRaises(resume, explain),
     section_scores |-> IF EducationRaises(resume, explain) THEN <<>>
                        ELSE CalculateSectionScores(
                                 seed, resume, job,
                                 ByKey(rk, SubSeq(emb.embeddings, 1, Len(rk))),
                                 ByKey(jk, SubSeq(emb.embeddings, Len(rk) + 1,
                                                  Len(rk) + Len(jk))),
                                 explain)]

\* Lines 77-84 of screen_resume on a Resume: the embeddings, then the section
\* scores unless the education feedback raises
Analysis(cfg, seed, st, resume, job, explain) ==
    SectionAnalysis(seed, resume, job, explain, ResumeTexts(resume), JobTexts(job),
                    EmbedAll(cfg, st, ResumeTexts(resume) \o JobTexts(job)))

\* The tfidf_max_features of the configurations
MaxFeatureChoices == {c.tfidf_max_features : c \in Configs}

\* The states a generator is in between the calls of a pipeline: new, or as
\* the first screen_resume that fitted it left it
GeneratorStates ==
    [m \in MaxFeatureChoices |->
        {NewGenerator} \cup
        {EmbedAll(MakeConfig(m, DefaultWeights), NewGenerator,
                  ResumeTexts(r) \o JobTexts(j)).state : r \in Resumes, j \in Jobs}]

\* Analysis, evaluated once per input
AnalysisTable ==
    [k \in UNION {{<<m, seed, st, r, j, e>> :
                      seed \in HashSeeds, st \in GeneratorStates[m], r \in Resumes,
                      j \in Jobs, e \in BOOLEAN} : m \in MaxFeatureChoices} |->
        Analysis(MakeConfig(k[1], DefaultWeights), k[2], k[3], k[4], k[5], k[6])]

Analyse(cfg, seed, st, resume, job, explain) ==
    LET k == <<cfg.tfidf_max_features, seed, st, resume, job, explain>>
    IN  IF k \in DOMAIN AnalysisTable THEN AnalysisTable[k]
        ELSE Analysis(cfg, seed, st, resume, job, explain)

\* Lines 87-119 of screen_resume, after the analysis a: the overall score, the
\* gaps, recommendations, explanation and prediction, and the ScreeningResult,
\* whose validation may raise
BuildResult(cfg, a, trained, classifier, resume, job, explain, now) ==
    IF a.raises THEN Raised("ValueError", a.emb)
    ELSE
    LET section_scores == a.section_scores
        overall_score  == CalculateWeightedScore(cfg.similarity_weights, section_scores)
        skill_gaps     == AnalyzeSkillGaps(resume, job)
    IN  IF ~Validates(overall_score) THEN Raised("ValidationError", a.emb)
        ELSE [outcome |-> "returned", error |-> "",
              result  |-> [overall_score     |-> overall_score,
                           section_scores    |-> section_scores,
                           skill_gaps        |-> skill_gaps,
                           recommendations   |->
                               GenerateRecommendations(section_scores, skill_gaps),
                           match_explanation |->
                               IF explain
                               THEN GenerateMatchExplanation(section_scores,
                                                             overall_score, skill_gaps)
                               ELSE <<>>,
                           processed_at      |-> now,
                           model_version     |-> cfg.model_version],
              state |-> a.emb.state, texts |-> a.emb.texts, paths |-> a.emb.paths,
              prediction |-> GetBinaryPrediction(trained, classifier, resume)]

\* screen_resume on a pipeline whose generator is in state st: what it returns
\* or raises, the generator's state after it, the texts it embedded, and the
\* binary prediction it computed (which no field of the result receives)
ScreenResume(cfg, seed, st, trained, classifier, resume, job, explain, now) ==
    IF ~IsResume(resume) THEN Raised("AttributeError", NoEmbeddings(st))
    ELSE IF ~HasProjectNames(resume)
    THEN Raised("AttributeError", EmbedAll(cfg, st, TextsBeforeProjects(resume)))
    ELSE BuildResult(cfg, Analyse(cfg, seed, st, resume, job, explain), trained,
                     classifier, resume, job, explain, now)

\* Mutant: the default result has no failure message
FailedResult_NoMessage(cfg, now) ==
    [overall_score     |-> 0,
     section_scores    |-> <<>>,
     skill_gaps        |-> <<>>,
     recommendations   |-> <<>>,
     match_explanation |-> <<>>,
     processed_at      |-> now,
     model_version     |-> cfg.model_version]

\* The default result of a failed screening with five zero sections in it
FailedResult_ZeroSections(cfg, now) ==
    [overall_score     |-> 0,
     section_scores    |-> [k \in Range(SectionOrder) |->
                               [score |-> 0, matched_keywords |-> <<>>,
                                missing_keywords |-> <<>>,
                                feedback |-> [template |-> "none"]]],
     skill_gaps        |-> <<>>,
     recommendations   |-> << [template |-> "screening_failed"] >>,
     match_explanation |-> << [part |-> "Error during processing"] >>,
     processed_at      |-> now,
     model_version     |-> cfg.model_version]

\* The default result batch_screen_resumes appends for an item that raised
FailedResult(cfg, now) ==
    [overall_score     |-> 0,
     section_scores    |-> <<>>,
     skill_gaps        |-> <<>>,
     recommendations   |-> << [template |-> "screening_failed"] >>,
     match_explanation |-> << [part |-> "Error during processing"] >>,
     processed_at      |-> now,
     model_version     |-> cfg.model_version]

(***************************************************************************)
(* The pipeline's calls, one after another: screen_resume,                 *)
(* train_binary_classifier and reset_vectorizer.                           *)
(***************************************************************************)
\* The history after the texts a screen_resume embedded
RECURSIVE ReceivedAll(_, _, _)
ReceivedAll(h, texts, paths) ==
    IF texts = <<>> THEN h
    ELSE ReceivedAll(Received(h, texts[1], paths[1]), Tail(texts), Tail(paths))

\* screen_resume resetting is_trained
Screen_ForgetsClassifier(resume, job, explain) ==
    /\ clock < MaxClock
    /\ batch = NoBatch
    /\ \E o \in {ScreenResume(config, hashseed, EmbState, is_trained, binary_classifier,
                            resume, job, explain, clock)} :
       LET me == [op |-> "screen", resume |-> resume, job |-> job, explain |-> explain,
                  outcome |-> o.outcome, error |-> o.error, result |-> o.result,
                  prediction |-> o.prediction, pre |-> EmbState, before |-> since_reset,
                  was_trained |-> is_trained]
           h  == ReceivedAll(since_reset, o.texts, o.paths)
       IN  /\ tfidf_vectorizer' = o.state.vectorizer
           /\ vectorizer_fitted' = o.state.fitted
           /\ call' = me
           /\ since_reset' = IF since_reset.fresh
                             THEN [h EXCEPT !.fresh_screen =
                                       Just([resume |-> resume, job |-> job,
                                             explain |-> explain, outcome |-> o.outcome,
                                             error |-> o.error, result |-> o.result])]
                             ELSE h
    /\ clock' = clock + 1
    /\ is_trained' = FALSE
    /\ UNCHANGED <<sessions, session_history, uuids, config, hashseed, binary_classifier, batch, threads>>

Screen(resume, job, explain) ==
    /\ clock < MaxClock
    /\ batch = NoBatch
    /\ \E o \in {ScreenResume(config, hashseed, EmbState, is_trained, binary_classifier,
                            resume, job, explain, clock)} :
       LET me == [op |-> "screen", resume |-> resume, job |-> job, explain |-> explain,
                  outcome |-> o.outcome, error |-> o.error, result |-> o.result,
                  prediction |-> o.prediction, pre |-> EmbState, before |-> since_reset,
                  was_trained |-> is_trained]
           h  == ReceivedAll(since_reset, o.texts, o.paths)
       IN  /\ tfidf_vectorizer' = o.state.vectorizer
           /\ vectorizer_fitted' = o.state.fitted
           /\ call' = me
           /\ since_reset' = IF since_reset.fresh
                             THEN [h EXCEPT !.fresh_screen =
                                       Just([resume |-> resume, job |-> job,
                                             explain |-> explain, outcome |-> o.outcome,
                                             error |-> o.error, result |-> o.result])]
                             ELSE h
    /\ clock' = clock + 1
    /\ UNCHANGED <<sessions, session_history, uuids, config, hashseed, is_trained, binary_classifier, batch, threads>>

\* Labelled examples a caller may train on, and the model_type it passes
BothLabels == << <<Developer, DataJob, TRUE>>, <<EmptyResume, DataJob, FALSE>> >>
OneLabel == << <<Developer, DataJob, TRUE>> >>

\* The (training_data, model_type) arguments of train_binary_classifier
Trainings ==
    {<<BothLabels, "random_forest">>, <<OneLabel, "logistic">>, <<<<>>, "random_forest">>}

TrainBinaryClassifier(training_data, model_type) ==
    /\ clock < MaxClock
    /\ batch = NoBatch
    /\ LET r == TrainBinaryClassifierResult(is_trained, binary_classifier,
                                            training_data, model_type)
       IN  /\ is_trained' = r.is_trained
           /\ binary_classifier' = r.binary_classifier
           /\ call' = [op |-> "train", raised |-> r.raised]
    /\ clock' = clock + 1
    /\ UNCHANGED <<sessions, session_history, uuids, config, hashseed, tfidf_vectorizer, vectorizer_fitted, since_reset,
                   batch, threads>>

\* ScreeningPipeline.__init__
Init ==
    /\ config \in Configs
    /\ hashseed \in HashSeeds
    /\ hashseed = 1 \/ config = MakeConfig(DefaultMaxFeatures, DefaultWeights)
    /\ tfidf_vectorizer = NewGenerator.vectorizer
    /\ vectorizer_fitted = NewGenerator.fitted
    /\ is_trained = FALSE
    /\ binary_classifier = None
    /\ clock = 0
    /\ call = NoCall
    /\ since_reset = NoHistory
    /\ batch = NoBatch
    /\ threads = NoThreads
    /\ sessions = <<>>
    /\ session_history = <<>>
    /\ uuids = {}

Next ==
    \/ \E resume \in Resumes, job \in Jobs, explain \in BOOLEAN : Screen(resume, job, explain)
    \/ \E t \in Trainings : TrainBinaryClassifier(t[1], t[2])
    \/ ResetVectorizer

Spec == Init /\ [][Next]_vars

(***************************************************************************)
(* batch_screen_resumes, one loop iteration per step.  batch holds the     *)
(* call's arguments, the index of the next item, the results list, and for *)
(* the properties a record of each iteration (steps).                      *)
(***************************************************************************)
\* Mutant: an item whose screening raised is skipped
AppendOutcome_SkipFailed(results, o, cfg, now) ==
    IF o.outcome = "returned" THEN Append(results, o.result) ELSE results

\* The try / except of the loop body: results.append(result), or
\* results.append(<the default result>) when screen_resume raised
AppendOutcome(results, o, cfg, now) ==
    IF o.outcome = "returned" THEN Append(results, o.result)
    ELSE Append(results, FailedResult(cfg, now))

\* The lists of resumes a caller may pass
RECURSIVE ListsUpTo(_, _)
ListsUpTo(S, n) ==
    IF n = 0 THEN {<<>>}
    ELSE LET shorter == ListsUpTo(S, n - 1)
         IN  shorter \cup {Append(l, x) : l \in shorter, x \in S}

BatchStart(resumes, job, explain) ==
    /\ batch = NoBatch
    /\ clock + Len(resumes) <= MaxClock
    /\ batch' = [active |-> TRUE, resumes |-> resumes, job |-> job, explain |-> explain,
                 next |-> 1, results |-> <<>>, steps |-> <<>>]
    /\ UNCHANGED <<sessions, session_history, uuids, config, hashseed, tfidf_vectorizer, vectorizer_fitted, is_trained,
                   binary_classifier, clock, call, since_reset, threads>>

BatchStep ==
    /\ batch # NoBatch
    /\ batch.next <= Len(batch.resumes)
    /\ \E o \in {ScreenResume(config, hashseed, EmbState, is_trained, binary_classifier,
                            batch.resumes[batch.next], batch.job, batch.explain, clock)} :
           /\ tfidf_vectorizer' = o.state.vectorizer
           /\ vectorizer_fitted' = o.state.fitted
           /\ since_reset' = ReceivedAll(since_reset, o.texts, o.paths)
           /\ batch' = [batch EXCEPT
                          !.next = @ + 1,
                          !.results = AppendOutcome(@, o, config, clock),
                          !.steps = Append(@, [item |-> batch.resumes[batch.next],
                                               outcome |-> o.outcome,
                                               result |-> o.result, now |-> clock,
                                               pre |-> EmbState, post |-> o.state])]
    /\ clock' = clock + 1
    /\ UNCHANGED <<sessions, session_history, uuids, config, hashseed, is_trained, binary_classifier, call, threads>>

BatchReturn ==
    /\ batch # NoBatch
    /\ batch.next > Len(batch.resumes)
    /\ call' = [op |-> "batch", resumes |-> batch.resumes, job |-> batch.job,
                explain |-> batch.explain, results |-> batch.results,
                steps |-> batch.steps]
    /\ batch' = NoBatch
    /\ UNCHANGED <<sessions, session_history, uuids, config, hashseed, tfidf_vectorizer, vectorizer_fitted, is_trained,
                   binary_classifier, clock, since_reset, threads>>

InitBatch ==
    /\ config \in {MakeConfig(DefaultMaxFeatures, DefaultWeights),
                   MakeConfig(DefaultMaxFeatures, SignedWeights)}
    /\ hashseed = 1
    /\ tfidf_vectorizer = NewGenerator.vectorizer
    /\ vectorizer_fitted = NewGenerator.fitted
    /\ is_trained = FALSE
    /\ binary_classifier = None
    /\ clock = 0
    /\ call = NoCall
    /\ since_reset = NoHistory
    /\ batch = NoBatch
    /\ threads = NoThreads
    /\ sessions = <<>>
    /\ session_history = <<>>
    /\ uuids = {}

NextBatch ==
    \/ \E resumes \in ListsUpTo(BatchItems, MaxBatch), job \in Jobs, explain \in BOOLEAN :
          BatchStart(resumes, job, explain)
    \/ BatchStep
    \/ BatchReturn

SpecBatch == InitBatch /\ [][NextBatch]_vars

(***************************************************************************)
(* Two screen_resume calls on one pipeline from two threads.  Nothing in   *)
(* _generate_text_embedding is locked, so a thread may be suspended        *)
(* between reading vectorizer_fitted (line 89), fit_transform (line 91)    *)
(* and the assignment of the flag (line 92).  threads[t] holds the texts   *)
(* thread t's call embeds, the index of the text it is at, its position    *)
(* within _generate_text_embedding, and the path each text took.           *)
(***************************************************************************)
Threads == 1..2

\* The thread whose call embeds the texts of (resume, job), before its first
Thread(resume, job) ==
    LET keyed == ResumeTexts(resume) \o JobTexts(job)
    IN  [texts |-> [i \in 1..Len(keyed) |-> keyed[i][2]], next |-> 1, pc |-> "enter",
         paths |-> <<>>]

CurrentText(t) == threads[t].texts[threads[t].next]

\* return embedding / return np.zeros(...): on to the call for the next text
Leave(t, path) ==
    [threads EXCEPT ![t].next = @ + 1, ![t].pc = "enter", ![t].paths = Append(@, path)]

\* Lines 84-89: the empty-text return, else the read of vectorizer_fitted
Enter(t) ==
    /\ threads[t].pc = "enter"
    /\ threads[t].next <= Len(threads[t].texts)
    /\ IF IsBlank(CurrentText(t))
       THEN /\ threads' = Leave(t, "empty")
            /\ since_reset' = Received(since_reset, CurrentText(t), "empty")
       ELSE /\ threads' = [threads EXCEPT ![t].pc = IF vectorizer_fitted THEN "transform"
                                                    ELSE "fit"]
            /\ UNCHANGED since_reset
    /\ UNCHANGED <<sessions, session_history, uuids, config, hashseed, tfidf_vectorizer, vectorizer_fitted, is_trained,
                   binary_classifier, clock, call, batch>>

\* Line 91: fit_transform([text]), which replaces whatever vocabulary the
\* vectorizer holds, or raises and leaves it (lines 99-102)
FitTransform(t) ==
    /\ threads[t].pc = "fit"
    /\ IF FitRaises(<<CurrentText(t)>>, EmbeddingNgramMax)
       THEN /\ threads' = Leave(t, "fit_error")
            /\ since_reset' = Received(since_reset, CurrentText(t), "fit_error")
            /\ UNCHANGED tfidf_vectorizer
       ELSE /\ tfidf_vectorizer' = Fitted(<<CurrentText(t)>>, EmbeddingNgramMax,
                                          config.tfidf_max_features)
            /\ threads' = [threads EXCEPT ![t].pc = "set_flag"]
            /\ since_reset' = Received(since_reset, CurrentText(t), "fit")
    /\ UNCHANGED <<sessions, session_history, uuids, config, hashseed, vectorizer_fitted, is_trained, binary_classifier,
                   clock, call, batch>>

\* Line 92: self.vectorizer_fitted = True
SetFlag(t) ==
    /\ threads[t].pc = "set_flag"
    /\ vectorizer_fitted' = TRUE
    /\ threads' = Leave(t, "fit")
    /\ UNCHANGED <<sessions, session_history, uuids, config, hashseed, tfidf_vectorizer, is_trained, binary_classifier,
                   clock, call, since_reset, batch>>

\* Line 95: transform([text]) with the vocabulary the vectorizer holds now
TransformText(t) ==
    /\ threads[t].pc = "transform"
    /\ LET path == IF tfidf_vectorizer.vocabulary = {} THEN "transform_error"
                   ELSE "transform"
       IN  /\ threads' = Leave(t, path)
           /\ since_reset' = Received(since_reset, CurrentText(t), path)
    /\ UNCHANGED <<sessions, session_history, uuids, config, hashseed, tfidf_vectorizer, vectorizer_fitted, is_trained,
                   binary_classifier, clock, call, batch>>

InitConc ==
    /\ config = MakeConfig(DefaultMaxFeatures, DefaultWeights)
    /\ hashseed = 1
    /\ tfidf_vectorizer = NewGenerator.vectorizer
    /\ vectorizer_fitted = NewGenerator.fitted
    /\ is_trained = FALSE
    /\ binary_classifier = None
    /\ clock = 0
    /\ call = NoCall
    /\ since_reset = NoHistory
    /\ batch = NoBatch
    /\ \E r1 \in Resumes, r2 \in Resumes, job \in Jobs :
          threads = <<Thread(r1, job), Thread(r2, job)>>
    /\ sessions = <<>>
    /\ session_history = <<>>
    /\ uuids = {}

NextConc ==
    \E t \in Threads :
        \/ Enter(t)
        \/ FitTransform(t)
        \/ SetFlag(t)
        \/ TransformText(t)

SpecConc == InitConc /\ [][NextConc]_vars

(***************************************************************************)
(* The scoring helpers applied on their own to inputs drawn from bounded   *)
(* sets; call records the arguments and what the helper returned.  The     *)
(* pipeline is as constructed and stays so.                                *)
(***************************************************************************)
MaxRequired == 3
MaxOwned == 2

InitHelper ==
    /\ config = MakeConfig(DefaultMaxFeatures, DefaultWeights)
    /\ hashseed \in HashSeeds
    /\ tfidf_vectorizer = NewGenerator.vectorizer
    /\ vectorizer_fitted = NewGenerator.fitted
    /\ is_trained = FALSE
    /\ binary_classifier = None
    /\ clock = 0
    /\ call = NoCall
    /\ since_reset = NoHistory
    /\ batch = NoBatch
    /\ threads = NoThreads
    /\ sessions = <<>>
    /\ session_history = <<>>
    /\ uuids = {}

\* A helper call changes nothing of the pipeline
HelperCalled(record) ==
    /\ call' = record
    /\ UNCHANGED <<sessions, session_history, uuids, config, hashseed, tfidf_vectorizer, vectorizer_fitted, is_trained,
                   binary_classifier, clock, since_reset, batch, threads>>

\* Skill names in both cases, and a list of more than five
SkillWords == {"Python", "python", "SQL", "Go"}
LongRequired == <<"Go", "Python", "C", "SQL", "Data", "MIT", "BSc">>

\* A Resume with the skills of two categories, and a job with the skill lists
WithSkills(programming, tools) ==
    [EmptyResume EXCEPT !.skills = << [category |-> "programming", items |-> programming],
                                      [category |-> "tools", items |-> tools] >>]
WithRequired(required, preferred) ==
    [BareJob EXCEPT !.required_skills = required, !.preferred_skills = preferred]

SkilledResumes ==
    {WithSkills(p, t) : p \in ListsUpTo(SkillWords, MaxOwned), t \in {<<>>, <<"sql">>}}
SkilledJobs ==
    {WithRequired(r, p) : r \in ListsUpTo(SkillWords, MaxRequired) \cup {LongRequired},
                          p \in {<<>>, <<"Go", "MIT">>}}

\* _analyze_skill_gaps(resume, job_description)
CallAnalyzeSkillGaps(resume, job) ==
    HelperCalled([op |-> "skill_gaps", resume |-> resume, job |-> job,
                  skill_gaps |-> AnalyzeSkillGaps(resume, job)])

\* Scores at, just below and away from the thresholds of the recommendations
ThresholdScores == {0, 499, 500, 599, 600, 699, 700, Scale}

\* A SectionScore with the score, and the section_scores of five of them
ScoredAt(score) ==
    [score |-> score, matched_keywords |-> <<>>, missing_keywords |-> <<"etl">>,
     feedback |-> [template |-> "none"]]
SectionScoresAt(skills, experience, education, projects, keywords) ==
    [skills |-> ScoredAt(skills), experience |-> ScoredAt(experience),
     education |-> ScoredAt(education), projects |-> ScoredAt(projects),
     keywords |-> ScoredAt(keywords)]

\* _generate_recommendations(section_scores, skill_gaps)
CallGenerateRecommendations(section_scores, skill_gaps) ==
    HelperCalled([op |-> "recommendations", section_scores |-> section_scores,
                  skill_gaps |-> skill_gaps,
                  recommendations |-> GenerateRecommendations(section_scores, skill_gaps)])

\* The longest keyword list a SectionScore is documented to carry
KeywordCap == 15
MaxEducation == 2

\* Education entries: a level, with a major or none, and a degree text
EducationEntries ==
    {[institution |-> <<"MIT">>, degree |-> f[2], level |-> level, major |-> f[1]] :
        level \in {"high_school", "bachelor", "master", "certificate"},
        f \in {<< <<>>, <<"BSc">> >>,
               << <<"computer", SP, "science">>, <<"BSc">> >>,
               << <<"history">>, <<"computer", SP, "science">> >>,
               << <<>>, <<"Data", SP, "science">> >>}}

\* More entries than KeywordCap, in a relevant field
LongEducation ==
    [i \in 1..(KeywordCap + 1) |->
        [institution |-> <<"MIT">>, degree |-> <<"BSc">>, level |-> "bachelor",
         major |-> <<"computer", SP, "science">>]]

EducatedResumes ==
    {[EmptyResume EXCEPT !.education = e] :
        e \in ListsUpTo(EducationEntries, MaxEducation) \cup {LongEducation}}

\* _score_education_section(resume, job_description, ..., explain)
CallScoreEducationSection(resume, job, explain) ==
    HelperCalled([op |-> "education", resume |-> resume, job |-> job, explain |-> explain,
                  raised |-> EducationRaises(resume, explain),
                  section |-> IF EducationRaises(resume, explain) THEN None
                              ELSE ScoreEducationSection(resume, job, explain)])

\* _score_skills_section(resume, job_description, resume_embeddings,
\* job_embeddings, explain), with embeddings of texts that share no term
CallScoreSkillsSection(resume, job, explain) ==
    HelperCalled([op |-> "skills", resume |-> resume, job |-> job, explain |-> explain,
                  section |-> ScoreSkillsSection(hashseed, resume, job,
                                                 [skills |-> Zeros(1)],
                                                 [skills |-> Zeros(1)], explain)])

MaxRoles == 3

\* Profiles with up to MaxRoles work experiences, none with a description
ExperiencedResumes ==
    {[EmptyResume EXCEPT !.experience = [i \in 1..n |-> [description |-> <<>>, days |-> 730]]] :
        n \in 0..MaxRoles}

\* Requirement lines that state years of experience, and some that do not
RequirementLines ==
    {<<"5+", SP, "years", SP, "experience">>,
     <<"3", SP, "years", SP, "of", SP, "experience">>,
     <<"5", SP, "years", SP, "relevant", SP, "experience">>,
     <<"minimum", SP, "3", SP, "years">>,
     <<"at", SP, "least", SP, "5", SP, "years">>,
     <<"bachelor", SP, "degree">>}

ExperienceJobs ==
    {[BareJob EXCEPT !.requirements = r, !.experience_level = level] :
        r \in ListsUpTo(RequirementLines, 2),
        level \in {"entry", "mid", "senior", "lead", "executive"}}

\* extract_job_features(job) and _score_experience_section(resume, job, ...) as
\* screen_resume calls them on one job, with embeddings of texts that share no term
CallScoreExperienceSection(resume, job, explain) ==
    HelperCalled([op |-> "experience", resume |-> resume, job |-> job, explain |-> explain,
                  requires_experience |-> ExtractRequiredExperienceYears(job.requirements),
                  required_experience |-> ExtractRequiredExperience(job),
                  section |-> ScoreExperienceSection(resume, job,
                                                     [experience |-> Zeros(1)],
                                                     [responsibilities |-> Zeros(1)],
                                                     explain)])

\* calculate_jaccard_similarity(set1, set2)
CallCalculateJaccardSimilarity(set1, set2) ==
    HelperCalled([op |-> "jaccard", set1 |-> set1, set2 |-> set2,
                  similarity |-> CalculateJaccardSimilarity(set1, set2)])

MaxDim == 2

\* The arrays of up to MaxDim components, each 0 (absent), -1, 1 or 2
Vectors ==
    UNION {{[dim |-> d, w |-> f] : f \in UNION {[S -> {-1, 1, 2}] : S \in SUBSET (1..d)}} :
              d \in 1..MaxDim}

\* calculate_cosine_similarity(embedding1, embedding2)
CallCalculateCosineSimilarity(embedding1, embedding2) ==
    HelperCalled([op |-> "cosine", embedding1 |-> embedding1, embedding2 |-> embedding2,
                  similarity |-> CalculateCosineSimilarity(embedding1, embedding2)])

MaxScores == 2

(***************************************************************************)
(* ResumeGenerator.generate_resume with a target job.  base_info is the    *)
(* record of its skills (by category) and experience entries; the role and *)
(* experience level are the defaults, so the template is                   *)
(* software_engineer / mid_level.                                          *)
(***************************************************************************)
\* f"{w}." and w.rstrip('.') of the words the summary can end with
Dotted(w) ==
    CASE w = "Python" -> "Python."
      [] w = "python" -> "python."
      [] w = "SQL"    -> "SQL."
      [] w = "Go"     -> "Go."
      [] OTHER        -> w
RstripDots(w) ==
    CASE w = "expertise..." -> "expertise"
      [] w = "Python."      -> "Python"
      [] w = "python."      -> "python"
      [] w = "SQL."         -> "SQL"
      [] w = "Go."          -> "Go"
      [] OTHER              -> w

\* sorted(a_set) of skill strs
SortedSkills(S) ==
    SelectSeq(<<"BSc", "C", "Data", "Go", "MIT", "Python", "SQL", "python", "sql">>,
              LAMBDA w : w \in S)

\* KeywordExpander.expand_skills, then sorted(list(set(...))): a target skill
\* joins a category that holds the same skill in another case
ExpandSkills(base_skills, target_skills) ==
    SortedSkills(Range(base_skills)
        \cup {t \in Range(target_skills) :
                 /\ t \notin Range(base_skills)
                 /\ \E b \in Range(base_skills) : Lower(b) = Lower(t)})

\* _generate_base_resume: the mid-level summary template with the years of
\* _calculate_years_experience, the expanded skills, one WorkExperience per entry
GenerateBaseResume(base_info, target_job) ==
    [summary    |-> <<"Experienced", SP, "Software", SP, "Engineer", SP, "with", SP,
                      IF base_info.experience = <<>> THEN "2" ELSE "4", SP,
                      "years", SP, "of", SP, "expertise...">>,
     skills     |-> [i \in 1..Len(base_info.skills) |->
                        [category |-> base_info.skills[i].category,
                         items |-> ExpandSkills(base_info.skills[i].items,
                                                target_job.required_skills
                                                    \o target_job.preferred_skills)]],
     experience |-> base_info.experience,
     education  |-> <<>>,
     projects   |-> <<>>]

\* The threshold below which the loop goes on: config.get("min_match_threshold", 0.65)
DefaultMatchThreshold == 650
\* max_iterations of _iterative_improvement
MaxIterations == 3

\* _score_resume_job_match: ' '.join of the description lists raises TypeError
\* as soon as there is a work experience
ScoreResumeJobMatchRaises(resume) == resume.experience # <<>>

\* _score_resume_job_match, when it does not raise
ScoreResumeJobMatch(resume, job) ==
    LET required_skills == job.required_skills \o job.preferred_skills
        skill_matches   == Cardinality(Range(ResumeSkills(resume)) \cap Range(required_skills))
        skills_score    == (skill_matches * Scale) \div Max2(Len(required_skills), 1)
        exp_score       == Min2((Len(resume.experience) * Scale) \div 3, Scale)
        resume_words    == Range(LowerWords(resume.summary))
        job_words       == Range(LowerWords(Join(<<job.description, Join(job.requirements)>>)))
        keyword_overlap == (Cardinality(resume_words \cap job_words) * Scale)
                               \div Max2(Cardinality(job_words), 1)
    IN  Min2((4 * skills_score + 3 * exp_score + 3 * keyword_overlap) \div 10, Scale)

\* _identify_missing_skills: the first three required skills the resume lacks
IdentifyMissingSkills(resume, target_job) ==
    LET resume_skills == {Lower(w) : w \in Range(ResumeSkills(resume))}
    IN  Take(SelectSeq(target_job.required_skills,
                       LAMBDA w : Lower(w) \notin resume_skills), 3)

\* _add_skills_to_resume: appended to the "technical" category, made if absent
RECURSIVE AppendNew(_, _)
AppendNew(items, skills) ==
    IF skills = <<>> THEN items
    ELSE AppendNew(IF skills[1] \in Range(items) THEN items ELSE Append(items, skills[1]),
                   Tail(skills))
AddSkillsToResume(resume, skills) ==
    LET with == IF \E i \in 1..Len(resume.skills) : resume.skills[i].category = "technical"
                THEN resume.skills
                ELSE Append(resume.skills, [category |-> "technical", items |-> <<>>])
    IN  [resume EXCEPT !.skills =
            [i \in 1..Len(with) |->
                IF with[i].category = "technical"
                THEN [with[i] EXCEPT !.items = AppendNew(@, skills)]
                ELSE with[i]]]

\* _optimize_summary_for_job: the first of the two leading required skills that
\* the summary does not mention is added to it
OptimizeSummaryForJob(resume, target_job) ==
    LET words == Range(LowerWords(resume.summary))
        key   == SelectSeq(Take(target_job.required_skills, 2),
                           LAMBDA req : /\ Lower(req) \notin words
                                        /\ Lower(Dotted(req)) \notin words)
        n     == Len(resume.summary)
    IN  IF resume.summary = <<>> \/ key = <<>> THEN resume
        ELSE [resume EXCEPT !.summary =
                 [@ EXCEPT ![n] = RstripDots(@)]
                     \o <<SP, "with", SP, "expertise", SP, "in", SP, Dotted(key[1])>>]

\* _apply_targeted_improvements on a resume without bullet points: the
\* improved resume and the improvements it lists
ApplyTargetedImprovements(resume, target_job) ==
    LET missing_skills == IdentifyMissingSkills(resume, target_job)
        skilled        == IF missing_skills # <<>>
                          THEN AddSkillsToResume(resume, missing_skills) ELSE resume
        updated        == OptimizeSummaryForJob(skilled, target_job)
    IN  [resume       |-> updated,
         improvements |-> (IF missing_skills # <<>>
                           THEN << [template |-> "added_skills",
                                    count |-> Len(missing_skills)] >> ELSE <<>>)
                          \o (IF updated.summary # skilled.summary
                              THEN << [template |-> "optimized_summary"] >> ELSE <<>>)]

\* The for loop of _iterative_improvement from its round `iteration` on
\* (0-based, as range(max_iterations) counts), and the final score
RECURSIVE ImprovementLoop(_, _, _, _, _)
ImprovementLoop(current_resume, target_job, threshold, iteration, data) ==
    IF ScoreResumeJobMatchRaises(current_resume)
    THEN [outcome |-> "raised", error |-> "TypeError", scores |-> data.scores]
    ELSE IF iteration >= MaxIterations
    THEN [outcome |-> "returned", resume |-> current_resume,
          iterations |-> data.iterations, improvements |-> data.improvements,
          scores |-> data.scores, applied_after |-> data.applied_after,
          final_score |-> ScoreResumeJobMatch(current_resume, target_job)]
    ELSE LET match_score == ScoreResumeJobMatch(current_resume, target_job)
             scores      == Append(data.scores, match_score)
             improved    == ApplyTargetedImprovements(current_resume, target_job)
         IN  IF match_score >= threshold
             THEN [outcome |-> "returned", resume |-> current_resume,
                   iterations |-> data.iterations, improvements |-> data.improvements,
                   scores |-> scores, applied_after |-> data.applied_after,
                   final_score |-> match_score]
             ELSE ImprovementLoop(improved.resume, target_job, threshold, iteration + 1,
                                  [iterations    |-> data.iterations + 1,
                                   improvements  |-> data.improvements \o improved.improvements,
                                   scores        |-> scores,
                                   applied_after |-> Append(data.applied_after, match_score)])

\* _iterative_improvement(resume, target_job)
IterativeImprovement(resume, target_job, threshold) ==
    ImprovementLoop(resume, target_job, threshold, 0,
                    [iterations |-> 0, improvements |-> <<>>, scores |-> <<>>,
                     applied_after |-> <<>>])

\* The jobs a resume is generated for
TargetJobs ==
    {[BareJob EXCEPT !.required_skills = r, !.preferred_skills = p, !.description = d] :
        r \in {<<>>, <<"Python">>, <<"Python", "SQL">>, <<"python", "Go">>, LongRequired},
        p \in {<<>>, <<"Go">>},
        d \in {<<>>, <<"years">>}}

\* generate_resume(base_info, target_job, iterative_improvement=True) of a
\* generator whose config holds min_match_threshold
CallGenerateResume(base_info, target_job, threshold) ==
    HelperCalled([op |-> "generate", base_info |-> base_info, target_job |-> target_job,
                  threshold |-> threshold,
                  generated |-> IterativeImprovement(
                                    GenerateBaseResume(base_info, target_job),
                                    target_job, threshold)])

\* calculate_weighted_similarity(similarities, weights)
CallCalculateWeightedSimilarity(similarities, weights) ==
    HelperCalled([op |-> "weighted", similarities |-> similarities, weights |-> weights,
                  similarity |-> CalculateWeightedSimilarity(similarities, weights)])

\* One call per behaviour
NextHelper ==
    /\ call = NoCall
    /\ \/ \E resume \in SkilledResumes, job \in SkilledJobs :
              CallAnalyzeSkillGaps(resume, job)
       \/ \E sk \in ThresholdScores, ex \in ThresholdScores, ed \in {0, 500},
             pr \in ThresholdScores, kw \in ThresholdScores, gaps \in {<<>>, LongRequired} :
              CallGenerateRecommendations(SectionScoresAt(sk, ex, ed, pr, kw), gaps)
       \/ \E resume \in EducatedResumes, job \in Jobs, explain \in BOOLEAN :
              CallScoreEducationSection(resume, job, explain)
       \/ \E resume \in SkilledResumes, job \in SkilledJobs, explain \in BOOLEAN :
              CallScoreSkillsSection(resume, job, explain)
       \/ \E resume \in ExperiencedResumes, job \in ExperienceJobs, explain \in BOOLEAN :
              CallScoreExperienceSection(resume, job, explain)
       \/ \E set1, set2 \in SUBSET SkillWords :
              CallCalculateJaccardSimilarity(set1, set2)
       \/ \E embedding1, embedding2 \in Vectors :
              CallCalculateCosineSimilarity(embedding1, embedding2)
       \/ \E similarities \in ListsUpTo({0, 500, Scale, 2 * Scale}, MaxScores),
             weights \in ListsUpTo({-1, 0, 1, 2}, MaxScores) :
              CallCalculateWeightedSimilarity(similarities, weights)
       \/ \E owned \in SkilledResumes, roles \in 0..1, target_job \in TargetJobs,
             threshold \in {DefaultMatchThreshold, 400} :
              CallGenerateResume(
                  [skills     |-> owned.skills,
                   experience |-> [i \in 1..roles |-> [description |-> <<>>, days |-> 730]]],
                  target_job, threshold)

SpecHelper == InitHelper /\ [][NextHelper]_vars

(***************************************************************************)
(* Claims about the EmbeddingGenerator (checked under SpecEmbed).          *)
(***************************************************************************)
\* The vectorizer a fit on docs leaves under the configuration
FitOf(docs) == Fitted(docs, EmbeddingNgramMax, config.tfidf_max_features)

\* C4, as claimed: the vectorizer is fitted on the first non-empty text it
\* receives: once a non-empty text has been received, the vectorizer is fitted
\* and its vocabulary and IDF weights are those of that text.
C4_FittedOnFirstNonEmptyText ==
    since_reset.first.some =>
        /\ vectorizer_fitted
        /\ tfidf_vectorizer = FitOf(<<since_reset.first.val>>)

\* C4, amended: between resets the vectorizer is fitted at most once, by the
\* first request whose text (or batch of texts) has at least one term left after
\* tokenizing and stop-word removal; before that request it stays unfitted, and
\* afterwards its vocabulary and IDF weights are those of that fit, whatever
\* is requested later.
C4_FittedOnceByFirstTextWithTerms ==
    /\ Len(since_reset.fits) <= 1
    /\ IF ~since_reset.first_with_terms.some
       THEN /\ ~vectorizer_fitted
            /\ tfidf_vectorizer = Unfitted
            /\ since_reset.fits = <<>>
       ELSE /\ vectorizer_fitted
            /\ tfidf_vectorizer = FitOf(since_reset.first_with_terms.val)
            /\ since_reset.fits = <<since_reset.first_with_terms.val>>

\* C4 witness: the first non-empty text had no term, a later text was fitted,
\* and a text after that one was only transformed.
C4_Witness ==
    /\ call.op = "embed" /\ call.path = "transform"
    /\ ~IsBlank(call.text)
    /\ since_reset.first_with_terms.some
    /\ call.text # since_reset.first_with_terms.val[1]
    /\ since_reset.first.val # since_reset.first_with_terms.val[1]
    /\ tfidf_vectorizer = call.pre.vectorizer

\* C6: an embedding request for an empty or whitespace-only text returns the
\* all-zero vector of the configured dimensionality and leaves the fitted flag
\* and the vectorizer as they were before the call.
C6_BlankTextLeavesVectorizer ==
    (call.op = "embed" /\ IsBlank(call.text)) =>
        /\ call.embedding = Zeros(config.tfidf_max_features)
        /\ AllZero(call.embedding)
        /\ call.embedding.dim = config.tfidf_max_features
        /\ EmbState = call.pre

\* C6 witness: a whitespace-only text requested of a fitted vectorizer.
C6_Witness ==
    /\ call.op = "embed" /\ IsBlank(call.text) /\ call.text # <<>>
    /\ call.pre.fitted /\ vectorizer_fitted
    /\ tfidf_vectorizer.vocabulary # {}

\* C7, as claimed: after a reset the next non-empty text is fitted: once that
\* text has been received the vectorizer is fitted, on that text.
C7_NextNonEmptyTextIsFitted ==
    (/\ call.op = "embed" /\ ~IsBlank(call.text)
     /\ call.before.reset_from.some /\ ~call.before.first.some) =>
        /\ vectorizer_fitted
        /\ tfidf_vectorizer = FitOf(<<call.text>>)

\* C7, amended: a reset from any state leaves the generator as a new one (no
\* vocabulary, not fitted) until a non-empty text arrives; the next non-empty
\* text takes the fit branch, and is fitted when it has at least one term;
\* its embedding and the generator's state are those a new generator yields.
C7_ResetReturnsToNewGenerator ==
    since_reset.reset_from.some =>
        /\ ~since_reset.first.some => EmbState = NewGenerator
        /\ (/\ call.op = "embed" /\ ~IsBlank(call.text) /\ ~call.before.first.some) =>
              /\ call.pre = NewGenerator
              /\ call.path \in {"fit", "fit_error"}
              /\ call.path = "fit" <=> ~FitRaises(<<call.text>>, EmbeddingNgramMax)
              /\ call.path = "fit" =>
                    /\ vectorizer_fitted
                    /\ tfidf_vectorizer = FitOf(<<call.text>>)
                    /\ call.embedding = Transform(FitOf(<<call.text>>), call.text,
                                                  EmbeddingNgramMax)
              /\ call.path = "fit_error" =>
                    /\ EmbState = NewGenerator
                    /\ call.embedding = Zeros(config.tfidf_max_features)

\* C7 witness: a fitted generator was reset and the next non-empty text was
\* fitted, leaving a vocabulary other than the one before the reset.
C7_Witness ==
    /\ since_reset.reset_from.some
    /\ since_reset.reset_from.val.fitted
    /\ call.op = "embed" /\ call.path = "fit" /\ ~call.before.first.some
    /\ tfidf_vectorizer.vocabulary # since_reset.reset_from.val.vectorizer.vocabulary

(***************************************************************************)
(* Claims about screen_resume, checked under Spec.                         *)
(***************************************************************************)
\* The last call was a screen_resume that returned a ScreeningResult
Returned == call.op = "screen" /\ call.outcome = "returned"

\* C1: every ScreeningResult that screen_resume returns has its overall_score
\* and each of its section scores in [0.0, 1.0], from any vectorizer state,
\* trained or not, explain true or false
C1_ScoresInRange ==
    Returned =>
        /\ call.result.overall_score >= 0 /\ call.result.overall_score <= Scale
        /\ \A k \in DOMAIN call.result.section_scores :
              /\ call.result.section_scores[k].score >= 0
              /\ call.result.section_scores[k].score <= Scale

\* A result with a positive score returned with explanations by a pipeline whose
\* vectorizer an earlier call had fitted
C1_Witness ==
    /\ Returned
    /\ call.pre.fitted
    /\ call.explain
    /\ call.result.overall_score > 0
    /\ \E k \in DOMAIN call.result.section_scores :
          call.result.section_scores[k].score > call.result.overall_score

\* The sections of the last result that are both weighted and present, the sum
\* of their weights, and the exact sum of weight * score over them
PresentSections == DOMAIN config.similarity_weights \cap DOMAIN call.result.section_scores
WeightTotal == SumOver(PresentSections, config.similarity_weights)
ExactTotal ==
    SumOver(PresentSections,
            [k \in PresentSections |->
                config.similarity_weights[k] * call.result.section_scores[k].score])

C10_PredictionAttached ==
    (Returned /\ call.was_trained) => "binary_prediction" \in DOMAIN call.result

\* A ScreeningResult without its timestamp
Untimed(result) == [f \in DOMAIN result \ {"processed_at"} |-> result[f]]

\* The last call was a screen_resume that started on a fresh generator, as did
\* an earlier screen_resume of the same (profile, job, explain)
ScreenedTwiceFresh ==
    /\ call.op = "screen"
    /\ call.before.fresh
    /\ call.before.fresh_screen.some
    /\ call.before.fresh_screen.val.resume = call.resume
    /\ call.before.fresh_screen.val.job = call.job
    /\ call.before.fresh_screen.val.explain = call.explain

\* C8: two screen_resume calls on the same (profile, job, explain), each
\* starting from a freshly reset generator, end the same way and return results
\* that agree on everything except the timestamp
C8_FreshScreensAgree ==
    ScreenedTwiceFresh =>
        /\ call.outcome = call.before.fresh_screen.val.outcome
        /\ call.error = call.before.fresh_screen.val.error
        /\ call.outcome = "returned" =>
              Untimed(call.result) = Untimed(call.before.fresh_screen.val.result)

\* The second of two such calls: the generator had been fitted and was reset
\* in between, and the result has a positive score and a later timestamp
C8_Witness ==
    /\ ScreenedTwiceFresh
    /\ call.before.reset_from.some
    /\ call.before.reset_from.val.fitted
    /\ call.outcome = "returned"
    /\ call.result.overall_score > 0
    /\ call.result.processed_at # call.before.fresh_screen.val.result.processed_at

(***************************************************************************)
(* Claims about batch_screen_resumes, checked under SpecBatch.             *)
(***************************************************************************)
\* The failure sentinel: score 0, no section scores, and a failure message in
\* the explanation and the recommendations
Sentinel(result) ==
    /\ result.overall_score = 0
    /\ result.section_scores = <<>>
    /\ result.match_explanation # <<>>
    /\ result.recommendations # <<>>

\* C2: a batch of N profiles returns N results, the i-th being the outcome of
\* the i-th screening, made of the i-th profile: the result screen_resume
\* returned, or the failure sentinel when it raised
C2_OneResultPerItemInOrder ==
    call.op = "batch" =>
        /\ Len(call.results) = Len(call.resumes)
        /\ Len(call.steps) = Len(call.resumes)
        /\ \A i \in 1..Len(call.resumes) :
              /\ call.steps[i].item = call.resumes[i]
              /\ i <= Len(call.results)
              /\ IF call.steps[i].outcome = "returned"
                 THEN call.results[i] = call.steps[i].result
                 ELSE Sentinel(call.results[i])
                      /\ call.results[i].processed_at = call.steps[i].now

\* A batch of two different profiles, the first failing and the second scored
C2_Witness ==
    /\ call.op = "batch"
    /\ Len(call.resumes) = 2
    /\ call.resumes[1] # call.resumes[2]
    /\ call.steps[1].outcome = "raised"
    /\ call.steps[2].outcome = "returned"
    /\ call.results[2].overall_score > 0

\* The item with the attributes whose absence made its screening raise
Repaired(item) ==
    [item EXCEPT !.projects =
        [i \in 1..Len(item.projects) |->
            IF "name" \in DOMAIN item.projects[i] THEN item.projects[i]
            ELSE [name         |-> <<>>,
                  description  |-> item.projects[i].description,
                  technologies |-> item.projects[i].technologies]]]

\* The generator's state after the embeddings of a screen_resume that ran to
\* its end
AfterScreening(st, resume, job) ==
    IF IsResume(resume)
    THEN EmbedAll(config, st, ResumeTexts(Repaired(resume)) \o JobTexts(job)).state
    ELSE st

\* C3: an item whose screening raised gets a sentinel with score 0 and a
\* non-empty message, the loop goes on to the end, and every later item is
\* screened from the state the failing item would have left had it been
\* screened successfully, or had it not been in the batch at all
C3_FailureIsolated ==
    call.op = "batch" =>
        \A i \in 1..Len(call.steps) :
            call.steps[i].outcome = "raised" =>
                /\ i <= Len(call.results)
                /\ Sentinel(call.results[i])
                /\ Len(call.steps) = Len(call.resumes)
                /\ \/ call.steps[i].post = call.steps[i].pre
                   \/ call.steps[i].post
                         = AfterScreening(call.steps[i].pre, call.steps[i].item, call.job)
                /\ i < Len(call.steps) => call.steps[i + 1].pre = call.steps[i].post
                /\ \A j \in 1..Len(call.steps) :
                      call.steps[j].outcome = "returned" =>
                          /\ j <= Len(call.results)
                          /\ call.results[j] = call.steps[j].result

\* A batch in which the failing item had fitted the vectorizer before it raised
\* in the middle of its embeddings, and a later item is scored
C3_Witness ==
    /\ call.op = "batch"
    /\ \E i \in 1..Len(call.steps) :
          /\ call.steps[i].outcome = "raised"
          /\ call.steps[i].item = Unnamed
          /\ call.steps[i].post # call.steps[i].pre
          /\ \E j \in (i + 1)..Len(call.steps) :
                /\ call.steps[j].outcome = "returned"
                /\ call.results[j].overall_score > 0

(***************************************************************************)
(* Claims about concurrent screen_resume calls, checked under SpecConc.    *)
(***************************************************************************)
\* C5: with two screen calls running concurrently on one pipeline, the
\* vectorizer is fitted once, by the first text with terms to reach it, and
\* no later text of either call fits it again
C5_FittedByExactlyOneCall ==
    /\ Len(since_reset.fits) <= 1
    /\ since_reset.fits # <<>> =>
          /\ since_reset.fits[1] = since_reset.first_with_terms.val
          /\ tfidf_vectorizer = FitOf(since_reset.fits[1])

(***************************************************************************)
(* Claims about the binary classifier, checked under Spec.                 *)
(***************************************************************************)
\* C11: a pipeline starts untrained; is_trained becomes true only in a
\* train_binary_classifier call that did not raise; whenever is_trained is true
\* a classifier object is present; and a screen_resume on an untrained
\* pipeline computes no prediction and returns a result without one
C11_TrainedOnlyByFit ==
    /\ ~is_trained
    /\ [][/\ (is_trained' /\ ~is_trained) => (call'.op = "train" /\ ~call'.raised)
          /\ is_trained' => binary_classifier' # None
          /\ (call'.op = "screen" /\ ~is_trained) =>
                /\ ~call'.prediction.some
                /\ call'.outcome = "returned" =>
                      "binary_prediction" \notin DOMAIN call'.result]_vars

\* A screen_resume that returned on a pipeline whose only training raised in
\* fit: the estimator is assigned, is_trained is still false
C11_Witness ==
    /\ Returned
    /\ ~call.was_trained
    /\ ~is_trained
    /\ binary_classifier # None
    /\ ~call.prediction.some

(***************************************************************************)
(* Claims about the scoring helpers.                                       *)
(***************************************************************************)
\* The positions of the job's required skills whose lower-cased form is the
\* lower-cased form of no skill of the resume
MissingPositions ==
    {i \in 1..Len(call.job.required_skills) :
        \A c \in 1..Len(call.resume.skills) :
            \A k \in 1..Len(call.resume.skills[c].items) :
                Lower(call.resume.skills[c].items[k]) # Lower(call.job.required_skills[i])}

\* C12: skill_gaps is the first five (at most) of the job's required skills, in
\* job-listing order, that no skill of any category of the resume equals up to
\* case; a preferred skill that is not required never appears.  Checked under
\* SpecHelper
C12_GapsAreFirstMissingRequired ==
    call.op = "skill_gaps" =>
        /\ Len(call.skill_gaps) = Min2(5, Cardinality(MissingPositions))
        /\ \A n \in 1..Len(call.skill_gaps) :
              \E i \in MissingPositions :
                  /\ Cardinality({j \in MissingPositions : j < i}) = n - 1
                  /\ call.skill_gaps[n] = call.job.required_skills[i]
        /\ \A w \in Range(call.job.preferred_skills) \ Range(call.job.required_skills) :
              w \notin Range(call.skill_gaps)

\* More than five required skills are missing, one is held in the other case
\* and in the second category, and the job prefers skills the resume lacks
C12_Witness ==
    /\ call.op = "skill_gaps"
    /\ Cardinality(MissingPositions) > 5
    /\ Len(call.skill_gaps) = 5
    /\ "SQL" \in Range(call.job.required_skills)
    /\ "SQL" \notin Range(call.skill_gaps)
    /\ call.resume.skills[2].items = <<"sql">>
    /\ call.job.preferred_skills # <<>>

\* The recommendation entries in the order the claim gives them
RecommendationOrder ==
    <<"strengthen_skills", "enhance_experience", "add_projects", "incorporate_terms",
      "restructure">>

\* The last call's recommendations have an entry of the kind
Recommends(kind) ==
    \E i \in 1..Len(call.recommendations) : call.recommendations[i].template = kind

\* C13: the recommendations hold a skills entry iff the skills score < 0.7, an
\* experience entry iff experience < 0.6, a projects entry iff projects < 0.5,
\* a keywords entry iff keywords < 0.6, the restructure entry iff more than two
\* sections score < 0.5; in that order, and never more than five.  Checked
\* under SpecHelper
C13_RecommendationsFollowThresholds ==
    call.op = "recommendations" =>
        /\ Recommends("strengthen_skills") <=> call.section_scores.skills.score < 700
        /\ Recommends("enhance_experience") <=> call.section_scores.experience.score < 600
        /\ Recommends("add_projects") <=> call.section_scores.projects.score < 500
        /\ Recommends("incorporate_terms") <=> call.section_scores.keywords.score < 600
        /\ Recommends("restructure") <=>
              Cardinality({k \in DOMAIN call.section_scores :
                              call.section_scores[k].score < 500}) > 2
        /\ \A i \in 1..Len(call.recommendations) : \A j \in (i + 1)..Len(call.recommendations) :
              \E m \in 1..5 : \E n \in (m + 1)..5 :
                  /\ call.recommendations[i].template = RecommendationOrder[m]
                  /\ call.recommendations[j].template = RecommendationOrder[n]
        /\ Len(call.recommendations) <= 5

\* Exactly two sections are below 0.5 (no restructure entry) while skills sits
\* on its threshold and keywords just under its own
C13_Witness ==
    /\ call.op = "recommendations"
    /\ call.section_scores.skills.score = 700
    /\ call.section_scores.keywords.score = 599
    /\ call.section_scores.projects.score = 499
    /\ call.section_scores.education.score = 0
    /\ call.section_scores.experience.score = 600
    /\ Len(call.recommendations) = 2

\* The last call was a _score_education_section that returned a SectionScore
EducationScored == call.op = "education" /\ ~call.raised

\* C14: a SectionScore has at most 15 matched and at most 15 missing keywords,
\* however many education entries the profile has.  Checked under SpecHelper
C14_KeywordListsBounded ==
    EducationScored =>
        /\ Len(call.section.matched_keywords) <= KeywordCap
        /\ Len(call.section.missing_keywords) <= KeywordCap


\* The major or the degree text of an education entry names a relevant field
InRelevantField(e) ==
    \E f \in RelevantFields : ContainsPhrase(e.major, f) \/ ContainsPhrase(e.degree, f)

\* C18: the education score is 0.6 for a bachelor, master or doctorate entry, plus
\* 0.3 for an entry whose major or degree text names a relevant field, plus 0.1
\* for a master or doctorate entry, and 0 without entries.  Checked under SpecHelper
C18_EducationScoreIsAdditive ==
    EducationScored =>
        LET edu    == call.resume.education
            levels == {edu[i].level : i \in 1..Len(edu)}
        IN  call.section.score =
                  (IF levels \cap {"bachelor", "master", "doctorate"} # {} THEN 600 ELSE 0)
                + (IF \E i \in 1..Len(edu) : InRelevantField(edu[i]) THEN 300 ELSE 0)
                + (IF levels \cap {"master", "doctorate"} # {} THEN 100 ELSE 0)


\* The last call scored the education section of a profile without education entries
NoEducationScored == EducationScored /\ call.resume.education = <<>>

\* C19 as stated: without education entries the score is 0.0 and the feedback says
\* that no education information was provided, whatever explain is.
\* Checked under SpecHelper
C19_NoEducationFeedbackAlways ==
    NoEducationScored =>
        /\ call.section.score = 0
        /\ call.section.feedback.template = "no_education"

\* C19, amended: without education entries the score is 0.0; the feedback says that
\* no education information was provided when explain is true, and is the match
\* percentage "Education match: 0.0%" when explain is false
C19_NoEducationFeedbackWhenExplained ==
    NoEducationScored =>
        /\ call.section.score = 0
        /\ call.section.matched_keywords = <<>>
        /\ call.explain => call.section.feedback = [template |-> "no_education"]
        /\ ~call.explain =>
              call.section.feedback = [template |-> "education_match", value |-> 0]

C19_Witness == NoEducationScored /\ ~call.explain /\ call.job = DataJob


\* A mapping of exactly the five section names to SectionScores
FiveSections(section_scores) ==
    /\ DOMAIN section_scores = Range(SectionOrder)
    /\ \A k \in Range(SectionOrder) :
          DOMAIN section_scores[k]
              = {"score", "matched_keywords", "missing_keywords", "feedback"}

\* C15 as stated: every element of the list batch_screen_resumes returns maps
\* exactly the five section names to a SectionScore.  Checked under SpecBatch
C15_EveryResultHasFiveSections ==
    call.op = "batch" =>
        \A i \in 1..Len(call.results) : FiveSections(call.results[i].section_scores)

\* C15, amended: every result screen_resume returned, alone or as an element of
\* a batch, maps exactly the five section names to a SectionScore; the element
\* that stands for an item whose screening raised has an empty mapping
C15_FiveSectionsUnlessFailed ==
    /\ batch # NoBatch =>
          \A i \in 1..Len(batch.steps) :
              batch.steps[i].outcome = "returned" =>
                  FiveSections(batch.steps[i].result.section_scores)
    /\ call.op = "batch" =>
          /\ Len(call.results) = Len(call.steps)
          /\ \A i \in 1..Len(call.results) :
                IF call.steps[i].outcome = "returned"
                THEN FiveSections(call.results[i].section_scores)
                ELSE DOMAIN call.results[i].section_scores = {}

\* A batch whose first item was scored and whose second item failed
C15_Witness ==
    /\ call.op = "batch"
    /\ Len(call.results) = 2
    /\ call.steps[1].outcome = "returned"
    /\ call.steps[2].outcome = "raised"
    /\ FiveSections(call.results[1].section_scores)
    /\ call.results[2].section_scores = <<>>


(***************************************************************************)
(* Claims about explain, checked under Spec.                               *)
(***************************************************************************)
\* The same screen_resume call, from the same state, with the other value of
\* explain
OtherExplain ==
    ScreenResume(config, hashseed, call.pre, call.was_trained, binary_classifier,
                 call.resume, call.job, ~call.explain, 0)

\* The score of each section
ScoresOf(section_scores) == [k \in DOMAIN section_scores |-> section_scores[k].score]

\* C16: with explain false the result's match_explanation is empty, with explain
\* true it is the narrative made of the overall score, the section scores and
\* the skill gaps; and the call ends the same way, with the same scores,
\* skill_gaps and recommendations, for both values of explain
C16_ExplainOnlyAddsNarrative ==
    (call.op = "screen" /\ IsResume(call.resume)) =>
        /\ call.outcome = OtherExplain.outcome
        /\ Returned =>
              /\ call.result.match_explanation
                    = IF call.explain
                      THEN GenerateMatchExplanation(call.result.section_scores,
                                                    call.result.overall_score,
                                                    call.result.skill_gaps)
                      ELSE <<>>
              /\ call.result.overall_score = OtherExplain.result.overall_score
              /\ ScoresOf(call.result.section_scores)
                    = ScoresOf(OtherExplain.result.section_scores)
              /\ call.result.skill_gaps = OtherExplain.result.skill_gaps
              /\ call.result.recommendations = OtherExplain.result.recommendations


\* C17: the direct-match ratio of the skills section is |matched| / max(|job_skills|, 1)
\* with job_skills the set union of the required and preferred skills, matched the
\* candidate's skills that are in it (case-sensitive) and missing the rest of it.
\* Without embedding similarity the section score is 0.7 times that ratio.
\* Checked under SpecHelper
C17_DirectMatchOverUnion ==
    call.op = "skills" =>
        LET job_skills     == Range(call.job.required_skills)
                                  \cup Range(call.job.preferred_skills)
            matched_skills == Range(ResumeSkills(call.resume)) \cap job_skills
            ratio          == (Cardinality(matched_skills) * Scale)
                                  \div Max2(Cardinality(job_skills), 1)
        IN  /\ Range(call.section.matched_keywords) = matched_skills
            /\ Range(call.section.missing_keywords)
                  = job_skills \ Range(ResumeSkills(call.resume))
            /\ call.section.score = (7 * ratio) \div 10
            /\ ~call.explain =>
                  /\ call.section.feedback.count = Cardinality(matched_skills)
                  /\ call.section.feedback.of = Cardinality(job_skills)


\* The default number of required years of each experience level
LevelDefaults == [entry |-> 1, mid |-> 3, senior |-> 5, lead |-> 8, executive |-> 10]

\* C20: the experience-level component is min(2 * roles / max(required_years, 1), 1),
\* required_years being the number of the first pattern among 'N+ years
\* experience', 'minimum N years', 'at least N years' that matches the
\* requirements, which is the non-zero requires_experience feature of
\* extract_job_features, and the default of the job's level only when none
\* matches.  Without text similarity the section score is 0.2 times the component.
\* Checked under SpecHelper
C20_RequiredYearsFromPatterns ==
    call.op = "experience" =>
        LET required_years == IF call.requires_experience # 0
                              THEN call.requires_experience
                              ELSE LevelDefaults[call.job.experience_level]
            component      == Min2((2 * Len(call.resume.experience) * Scale)
                                       \div Max2(required_years, 1), Scale)
        IN  /\ call.required_experience = required_years
            /\ call.section.score = (2 * component) \div 10


(***************************************************************************)
(* Claims about the SimilarityCalculator, checked under SpecHelper.        *)
(***************************************************************************)
\* C21: calculate_jaccard_similarity is 1.0 for two empty sets and for (A, A),
\* 0.0 when exactly one set is empty, |A n B| / |A u B| otherwise, and the same
\* with its arguments swapped
C21_JaccardCases ==
    call.op = "jaccard" =>
        LET A == call.set1
            B == call.set2
        IN  /\ (A = {} /\ B = {}) => call.similarity = Scale
            /\ (A = B /\ A # {}) => call.similarity = Scale
            /\ ((A = {}) # (B = {})) => call.similarity = 0
            /\ (A # {} /\ B # {}) =>
                  /\ call.similarity * Cardinality(A \cup B)
                        <= Cardinality(A \cap B) * Scale
                  /\ (call.similarity + 1) * Cardinality(A \cup B)
                        > Cardinality(A \cap B) * Scale
            /\ call.similarity = CalculateJaccardSimilarity(B, A)

\* Two empty sets compared
C21_Witness == call.op = "jaccard" /\ call.set1 = {} /\ call.set2 = {}


\* The last call compared a non-zero vector with itself
ComparedWithItself ==
    /\ call.op = "cosine"
    /\ call.embedding1 = call.embedding2
    /\ ~AllZero(call.embedding1)

WeightedAverage(scores, weights) ==
    Quotient(SumSeq([i \in 1..Len(scores) |-> scores[i] * weights[i]]), SumSeq(weights))

\* x is y up to the rounding of one division per term
Near(x, y, terms) == x - y <= terms /\ y - x <= terms

\* The inputs for which calculate_weighted_similarity returns 0.0 at once
Defaulted ==
    \/ Len(call.similarities) # Len(call.weights)
    \/ call.similarities = <<>>
    \/ SumSeq(call.weights) = 0

\* C23 as stated: calculate_weighted_similarity returns 0.0 for lists of
\* different lengths, for empty lists and for weights that sum to 0, and
\* otherwise the sum of score_i * weight_i / (sum of weights)
C23_WeightedAverage ==
    call.op = "weighted" =>
        IF Defaulted THEN call.similarity = 0
        ELSE Near(call.similarity, WeightedAverage(call.similarities, call.weights),
                  Len(call.weights))

\* C23, amended: otherwise it returns that weighted average clipped to [0, 1]
C23_WeightedAverageClipped ==
    call.op = "weighted" =>
        IF Defaulted THEN call.similarity = 0
        ELSE Near(call.similarity,
                  Clip(WeightedAverage(call.similarities, call.weights), 0, Scale),
                  Len(call.weights))

\* A weighted average above 1.0, returned as 1.0
C23_Witness ==
    /\ call.op = "weighted"
    /\ ~Defaulted
    /\ WeightedAverage(call.similarities, call.weights) > Scale
    /\ call.similarity = Scale


(***************************************************************************)
(* calculate_tfidf_similarity and the generator, checked under SpecEmbed.  *)
(***************************************************************************)
\* C24: calculate_tfidf_similarity leaves the generator's vectorizer and fitted
\* flag as they were, returns what it returns for the same texts next to a
\* newly constructed generator, whatever embedding and reset calls came before,
\* and returns 0.0 when either text is empty or whitespace-only
C24_TfidfSimilarityIsSelfContained ==
    call.op = "tfidf" =>
        /\ EmbState = call.pre
        /\ call.similarity = CalculateTfidfSimilarity(call.text1, call.text2)
        /\ call.similarity >= 0 /\ call.similarity <= Scale
        /\ (IsBlank(call.text1) \/ IsBlank(call.text2)) => call.similarity = 0

\* Two texts with a common term compared after the generator had been fitted on
\* another text, and a blank text compared
C24_Witness ==
    /\ call.op = "tfidf"
    /\ call.pre.fitted
    /\ call.text1 # call.text2
    /\ call.similarity > 0 /\ call.similarity < Scale


(***************************************************************************)
(* generate_resume with iterative improvement, checked under SpecHelper.   *)
(***************************************************************************)
Generated == call.op = "generate" /\ call.generated.outcome = "returned"

\* C25: generate_resume with a target job and iterative_improvement=True
\* returns a resume and its metadata without raising; the loop scores at most
\* three times, no round before the last scored one reached the threshold, a
\* round that reached it applied no improvement, and metadata["iterations"] is
\* the number of rounds that applied improvements, between 0 and 3
C25_GenerateResumeImprovesWithinThreeRounds ==
    call.op = "generate" =>
        /\ call.generated.outcome = "returned"
        /\ LET g == call.generated
               n == Len(g.scores)
           IN  /\ n <= MaxIterations
               /\ \A i \in 1..(n - 1) : g.scores[i] < call.threshold
               /\ g.iterations = Len(g.applied_after)
               /\ g.iterations \in 0..MaxIterations
               /\ \A i \in 1..Len(g.applied_after) : g.applied_after[i] < call.threshold
               /\ (n > 0 /\ g.scores[n] >= call.threshold) => g.iterations = n - 1

\* The same, for the calls whose base_info has no work experience
C25_WithoutExperienceImprovesWithinThreeRounds ==
    (call.op = "generate" /\ call.base_info.experience = <<>>) =>
        /\ call.generated.outcome = "returned"
        /\ LET g == call.generated
               n == Len(g.scores)
           IN  /\ n <= MaxIterations
               /\ \A i \in 1..(n - 1) : g.scores[i] < call.threshold
               /\ g.iterations = Len(g.applied_after)
               /\ g.iterations \in 0..MaxIterations
               /\ \A i \in 1..Len(g.applied_after) : g.applied_after[i] < call.threshold
               /\ (n > 0 /\ g.scores[n] >= call.threshold) => g.iterations = n - 1

\* A resume that reached the default threshold after one improvement round,
\* and one that never reached it
C25_StoppedAfterOneRound ==
    /\ Generated
    /\ call.threshold = DefaultMatchThreshold
    /\ call.generated.iterations = 1
    /\ Len(call.generated.scores) = 2
C25_NeverReached ==
    /\ Generated
    /\ call.generated.iterations = MaxIterations
    /\ call.generated.final_score < call.threshold


(***************************************************************************)
(* SessionManager.  sessions is the dict in insertion order, as a sequence *)
(* of session records; datetime.now() is clock, which advances between     *)
(* calls; session_timeout is counted in ticks of clock.                    *)
(***************************************************************************)
MaxNow == 3            \* ticks of the clock per behaviour
MaxSessions == 2       \* sessions created per behaviour
MaxRequestCount == 1   \* update_session_activity calls per session
SessionTimeout == 1    \* session_timeout, in ticks

SessionIds == 1..MaxSessions

\* Everything outside the SessionManager
PipelineUnchanged ==
    UNCHANGED <<config, hashseed, tfidf_vectorizer, vectorizer_fitted, is_trained,
                binary_classifier, since_reset, batch, threads>>

\* _is_session_expired(session) at time now
IsSessionExpired(session, now) == now > session.last_activity + SessionTimeout

\* session_id in self.sessions, self.sessions[session_id], del self.sessions[session_id]
InSessions(ss, session_id) == \E i \in 1..Len(ss) : ss[i].session_id = session_id
SessionOf(ss, session_id) ==
    ss[CHOOSE i \in 1..Len(ss) : ss[i].session_id = session_id]
Deleted(ss, session_id) == SelectSeq(ss, LAMBDA s : s.session_id # session_id)

\* Time passes between two calls
TimePasses ==
    /\ clock < MaxNow
    /\ clock' = clock + 1
    /\ call' = NoCall
    /\ UNCHANGED <<sessions, session_history, uuids>>
    /\ PipelineUnchanged

\* create_session(): uuid4 returns a value it has not returned before
CreateSession ==
    /\ \E session_id \in SessionIds \ uuids :
          /\ uuids' = uuids \cup {session_id}
          /\ sessions' = Append(sessions, [session_id    |-> session_id,
                                           created_at    |-> clock,
                                           last_activity |-> clock,
                                           request_count |-> 0,
                                           is_active     |-> TRUE])
          /\ call' = [op |-> "create_session", result |-> session_id]
    /\ UNCHANGED <<clock, session_history>>
    /\ PipelineUnchanged

\* get_session(session_id)
GetSession(session_id) ==
    /\ IF ~InSessions(sessions, session_id)
       THEN /\ call' = [op |-> "get_session", session_id |-> session_id, result |-> None,
                        before |-> sessions, now |-> clock]
            /\ UNCHANGED sessions
       ELSE IF IsSessionExpired(SessionOf(sessions, session_id), clock)
       THEN /\ sessions' = Deleted(sessions, session_id)
            /\ call' = [op |-> "get_session", session_id |-> session_id, result |-> None,
                        before |-> sessions, now |-> clock]
       ELSE /\ call' = [op |-> "get_session", session_id |-> session_id,
                        result |-> Just(SessionOf(sessions, session_id)),
                        before |-> sessions, now |-> clock]
            /\ UNCHANGED sessions
    /\ UNCHANGED <<clock, session_history, uuids>>
    /\ PipelineUnchanged

\* update_session_activity(session_id)
UpdateSessionActivity(session_id) ==
    /\ InSessions(sessions, session_id) =>
          SessionOf(sessions, session_id).request_count < MaxRequestCount
    /\ sessions' = [i \in 1..Len(sessions) |->
                       IF sessions[i].session_id = session_id
                       THEN [sessions[i] EXCEPT !.last_activity = clock,
                                                !.request_count = @ + 1]
                       ELSE sessions[i]]
    /\ call' = [op |-> "update_session_activity", session_id |-> session_id,
                before |-> sessions, now |-> clock]
    /\ UNCHANGED <<clock, session_history, uuids>>
    /\ PipelineUnchanged

\* destroy_session(session_id)
DestroySession(session_id) ==
    /\ sessions' = Deleted(sessions, session_id)
    /\ call' = [op |-> "destroy_session", session_id |-> session_id,
                result |-> InSessions(sessions, session_id)]
    /\ UNCHANGED <<clock, session_history, uuids>>
    /\ PipelineUnchanged

\* The loop of get_active_sessions over self.sessions.items(): destroy_session
\* deletes from the dict being iterated, and the iterator's next step raises
\* RuntimeError (dictionary changed size during iteration), also when the
\* deleted item was the last one
ActiveSessions(ss, now) ==
    IF \E i \in 1..Len(ss) : IsSessionExpired(ss[i], now)
    THEN LET first == CHOOSE i \in 1..Len(ss) :
                          /\ IsSessionExpired(ss[i], now)
                          /\ \A j \in 1..(i - 1) : ~IsSessionExpired(ss[j], now)
         IN  [outcome  |-> "raised", error |-> "RuntimeError", result |-> <<>>,
              sessions |-> Deleted(ss, ss[first].session_id)]
    ELSE [outcome  |-> "returned", error |-> "none",
          result   |-> SelectSeq(ss, LAMBDA s : s.is_active),
          sessions |-> ss]

\* get_active_sessions()
GetActiveSessions ==
    /\ \E o \in {ActiveSessions(sessions, clock)} :
          /\ sessions' = o.sessions
          /\ call' = [op |-> "get_active_sessions", outcome |-> o.outcome,
                      error |-> o.error, result |-> o.result,
                      before |-> sessions, now |-> clock]
    /\ UNCHANGED <<clock, session_history, uuids>>
    /\ PipelineUnchanged

\* cleanup_expired_sessions(): the ids are collected first, then destroyed
CleanupExpiredSessions ==
    /\ sessions' = SelectSeq(sessions, LAMBDA s : ~IsSessionExpired(s, clock))
    /\ call' = [op |-> "cleanup_expired_sessions", before |-> sessions, now |-> clock]
    /\ UNCHANGED <<clock, session_history, uuids>>
    /\ PipelineUnchanged

\* get_session_stats(): get_active_sessions(), then the counts
GetSessionStats ==
    /\ \E o \in {ActiveSessions(sessions, clock)} :
          /\ sessions' = o.sessions
          /\ call' = [op |-> "get_session_stats", outcome |-> o.outcome, error |-> o.error,
                      result |-> IF o.outcome = "raised" THEN None
                                 ELSE [total_active_sessions |-> Len(o.result),
                                       total_session_history |->
                                           Cardinality(DOMAIN session_history),
                                       session_timeout |-> SessionTimeout,
                                       total_requests |->
                                           SumSeq([i \in 1..Len(o.result) |->
                                                      o.result[i].request_count])],
                      before |-> sessions, now |-> clock]
    /\ UNCHANGED <<clock, session_history, uuids>>
    /\ PipelineUnchanged

\* A newly constructed SessionManager next to a newly constructed pipeline
InitSession ==
    /\ config = MakeConfig(DefaultMaxFeatures, DefaultWeights)
    /\ hashseed = 1
    /\ tfidf_vectorizer = NewGenerator.vectorizer
    /\ vectorizer_fitted = NewGenerator.fitted
    /\ is_trained = FALSE
    /\ binary_classifier = None
    /\ clock = 0
    /\ call = NoCall
    /\ since_reset = NoHistory
    /\ batch = NoBatch
    /\ threads = NoThreads
    /\ sessions = <<>>
    /\ session_history = <<>>
    /\ uuids = {}

NextSession ==
    \/ TimePasses
    \/ CreateSession
    \/ \E session_id \in SessionIds : GetSession(session_id)
    \/ \E session_id \in SessionIds : UpdateSessionActivity(session_id)
    \/ \E session_id \in SessionIds : DestroySession(session_id)
    \/ GetActiveSessions
    \/ CleanupExpiredSessions
    \/ GetSessionStats

SpecSession == InitSession /\ [][NextSession]_vars


(***************************************************************************)
(* The SessionManager, checked under SpecSession.                          *)
(***************************************************************************)
Listed == call.op = "get_active_sessions"
ExpiredBefore == {s \in Range(call.before) : IsSessionExpired(s, call.now)}

\* C26: get_active_sessions returns without raising, what it returns is
\* exactly the sessions that were active and not expired, in the table's order,
\* and no expired session is left in the table, however many had expired
C26_ActiveSessionsListedExpiredRemoved ==
    Listed =>
        /\ call.outcome = "returned"
        /\ call.result = SelectSeq(call.before,
                                   LAMBDA s : s.is_active /\ ~IsSessionExpired(s, call.now))
        /\ sessions = SelectSeq(call.before, LAMBDA s : ~IsSessionExpired(s, call.now))

\* The same, for the calls made when no session of the table has expired
C26_ActiveSessionsListedWhenNoneExpired ==
    (Listed /\ ExpiredBefore = {}) =>
        /\ call.outcome = "returned"
        /\ call.result = call.before
        /\ sessions = call.before

\* get_active_sessions called with two expired sessions in the table
C26_SeveralExpired ==
    /\ Listed
    /\ Cardinality(ExpiredBefore) >= 2


\* The sessions of the table whose inactivity has exceeded session_timeout
ExpiredIds == {sessions[i].session_id : i \in {j \in 1..Len(sessions) :
                                                   IsSessionExpired(sessions[j], clock)}}
StillInTable(session_id) == InSessions(sessions, session_id)

\* C29: a session whose inactivity has exceeded session_timeout stays expired
\* for as long as it is in the table, whatever operation follows (so no later
\* get_session returns it), and get_session on it returns None and removes it
C29_ExpiredSessionStaysExpired ==
    [][\A session_id \in ExpiredIds :
          /\ StillInTable(session_id)' => session_id \in ExpiredIds'
          /\ (call'.op = "get_session" /\ call'.session_id = session_id) =>
                 /\ call'.result = None
                 /\ ~StillInTable(session_id)']_vars

\* The part of C29 about get_session alone: called on an expired session it
\* returns None and takes the session out of the table
C29_GetSessionDropsExpired ==
    [][\A session_id \in ExpiredIds :
          (call'.op = "get_session" /\ call'.session_id = session_id) =>
              /\ call'.result = None
              /\ ~StillInTable(session_id)']_vars

\* get_session returning a session that had expired before
C29_Revived ==
    /\ call.op = "get_session"
    /\ call.result # None
    /\ call.result.val.request_count = 1
    /\ call.result.val.last_activity > call.result.val.created_at + SessionTimeout


(***************************************************************************)
(* The request history of the SessionManager.  A caller numbers the        *)
(* requests of a session in request_data, one after the last stored.       *)
(***************************************************************************)
max_history_size == 100
MaxRequests == 102     \* add_request_to_history calls per behaviour
MaxShortHistory == 2   \* add_request_to_history calls of the second session
HistoryIds == {1, 2}
HistoryLimits == {0, 1, 50, max_history_size, max_history_size + 1}
Success == [success |-> TRUE]

\* self.session_history.get(session_id, [])
HistoryOf(session_id) ==
    IF session_id \in DOMAIN session_history THEN session_history[session_id] ELSE <<>>

RequestsMade(session_id) ==
    LET history == HistoryOf(session_id)
    IN  IF history = <<>> THEN 0 ELSE history[Len(history)].request_data
TotalRequests ==
    SumOver(DOMAIN session_history, [id \in DOMAIN session_history |-> RequestsMade(id)])

\* history[-n:] for n > 0
LastOf(history, n) ==
    SubSeq(history, Max2(1, Len(history) - n + 1), Len(history))

\* The entry add_request_to_history builds
HistoryEntry(endpoint, method, request_data, response_data) ==
    [timestamp     |-> clock,
     endpoint      |-> endpoint,
     method        |-> method,
     request_data  |-> request_data,
     response_data |-> response_data,
     status        |-> IF response_data # None /\ response_data.success
                       THEN "success" ELSE "error"]

\* add_request_to_history keeping the oldest entries of a full history
AddRequestToHistory_KeepsOldest(session_id, endpoint, method, response_data) ==
    /\ TotalRequests < MaxRequests
    /\ LET entry    == HistoryEntry(endpoint, method, RequestsMade(session_id) + 1,
                                    response_data)
           appended == Append(HistoryOf(session_id), entry)
           stored   == IF Len(appended) > max_history_size
                       THEN SubSeq(appended, 1, max_history_size)
                       ELSE appended
       IN  /\ session_history' =
                  [id \in DOMAIN session_history \cup {session_id} |->
                      IF id = session_id THEN stored ELSE session_history[id]]
           /\ call' = [op |-> "add_request_to_history", session_id |-> session_id,
                       entry |-> entry, before |-> Len(HistoryOf(session_id))]
    /\ UNCHANGED <<clock, sessions, uuids>>
    /\ PipelineUnchanged

\* add_request_to_history(session_id, endpoint, method, request_data, response_data)
AddRequestToHistory(session_id, endpoint, method, response_data) ==
    /\ TotalRequests < MaxRequests
    /\ LET entry    == HistoryEntry(endpoint, method, RequestsMade(session_id) + 1,
                                    response_data)
           appended == Append(HistoryOf(session_id), entry)
           stored   == IF Len(appended) > max_history_size
                       THEN LastOf(appended, max_history_size)
                       ELSE appended
       IN  /\ session_history' =
                  [id \in DOMAIN session_history \cup {session_id} |->
                      IF id = session_id THEN stored ELSE session_history[id]]
           /\ call' = [op |-> "add_request_to_history", session_id |-> session_id,
                       entry |-> entry, before |-> Len(HistoryOf(session_id))]
    /\ UNCHANGED <<clock, sessions, uuids>>
    /\ PipelineUnchanged

\* get_session_history(session_id, limit)
GetSessionHistory(session_id, limit) ==
    /\ call' = [op |-> "get_session_history", session_id |-> session_id, limit |-> limit,
                result |-> IF limit # 0 THEN LastOf(HistoryOf(session_id), limit)
                           ELSE HistoryOf(session_id)]
    /\ UNCHANGED <<clock, sessions, session_history, uuids>>
    /\ PipelineUnchanged

\* One session makes requests up to MaxRequests, the other a few; the first
\* response of a session may be missing
NextHistory ==
    \/ \E session_id \in {id \in HistoryIds :
                             id = 1 \/ RequestsMade(id) < MaxShortHistory} :
          \E response_data \in IF RequestsMade(session_id) = 0
                               THEN {None, Success} ELSE {Success} :
              AddRequestToHistory(session_id, "/api/screen", "POST", response_data)
    \/ \E session_id \in HistoryIds, limit \in HistoryLimits :
          GetSessionHistory(session_id, limit)

SpecHistory == InitSession /\ [][NextHistory]_vars

\* Every stored history holds at most max_history_size entries, they are
\* consecutive requests in the order they were made, none is missing before the
\* history has been full, and the entry just added is the last one
HistoryIsMostRecent ==
    /\ \A id \in DOMAIN session_history :
          LET history == session_history[id]
          IN  /\ Len(history) <= max_history_size
              /\ \A i \in 1..Len(history) :
                    history[i].request_data = history[1].request_data + i - 1
              /\ Len(history) < max_history_size => history[1].request_data = 1
    /\ call.op = "add_request_to_history" =>
          LET history == session_history[call.session_id]
          IN  /\ history[Len(history)] = call.entry
              /\ Len(history) = Min2(call.before + 1, max_history_size)

\* C27, as claimed: every stored history is the session's most recent entries,
\* at most 100, in the order added, and get_session_history(session_id, limit)
\* returns the last min(limit, stored) of them in that order
C27_HistoryReturnsLastLimit ==
    /\ HistoryIsMostRecent
    /\ call.op = "get_session_history" =>
          LET history == HistoryOf(call.session_id)
              n       == Min2(call.limit, Len(history))
          IN  call.result = SubSeq(history, Len(history) - n + 1, Len(history))

\* C27, amended: every stored history is the session's most recent entries, at
\* most 100, in the order added; get_session_history(session_id, limit) returns
\* the last min(limit, stored) of them in that order when limit is positive,
\* and the whole stored history when limit is 0
C27_HistoryReturnsLastLimitOrAll ==
    /\ HistoryIsMostRecent
    /\ call.op = "get_session_history" =>
          LET history == HistoryOf(call.session_id)
              n       == IF call.limit = 0 THEN Len(history)
                         ELSE Min2(call.limit, Len(history))
          IN  call.result = SubSeq(history, Len(history) - n + 1, Len(history))

\* A history that has dropped its oldest entry, read with limit 0 and with a
\* limit below its length
C27_Witness ==
    /\ call.op = "get_session_history"
    /\ call.limit = 0
    /\ Len(call.result) = max_history_size
    /\ call.result[1].request_data > 1
C27_WitnessLimited ==
    /\ call.op = "get_session_history"
    /\ call.limit = 50
    /\ Len(call.result) = 50
    /\ call.result[1].request_data = max_history_size - 48


(***************************************************************************)
(* screen_resume over the levels of education, checked under SpecLevels.   *)
(***************************************************************************)
\* The values of EducationLevel
EducationLevel ==
    {"high_school", "associate", "bachelor", "master", "doctorate", "certificate"}

\* One valid profile per level of its education entry
Graduates == {[Certified EXCEPT !.education[1].level = level] : level \in EducationLevel}

NextLevels ==
    \E resume \in Graduates, job \in Jobs, explain \in BOOLEAN : Screen(resume, job, explain)

SpecLevels == InitHelper /\ [][NextLevels]_vars

Explained == call.op = "screen" /\ call.explain

\* C28: screen_resume with explain=true returns a ScreeningResult without
\* raising for a valid profile whose education entry carries any of the six
\* EducationLevel values
C28_ExplainedScreenReturnsForEveryLevel ==
    Explained => /\ call.outcome = "returned"
                 /\ call.result # None

\* The same, for the five levels other than certificate
C28_ExplainedScreenReturnsUnlessCertificate ==
    (Explained /\ call.resume.education[1].level # "certificate") =>
        /\ call.outcome = "returned"
        /\ call.result # None

\* An explained screening of a certificate holder that raised ValueError
C28_CertificateRaised ==
    /\ Explained
    /\ call.resume.education[1].level = "certificate"
    /\ call.outcome = "raised"
    /\ call.error = "ValueError"


(***************************************************************************)
(* Single and batch screening of one pipeline, with training and resets in *)
(* between.                                                                *)
(***************************************************************************)
NextPipeline ==
    \/ \E resume \in Resumes, job \in Jobs, explain \in BOOLEAN : Screen(resume, job, explain)
    \/ \E t \in Trainings : TrainBinaryClassifier(t[1], t[2])
    \/ NextBatch

SpecPipeline == InitSession /\ [][NextPipeline]_vars

\* A step of screen_resume, alone or for one resume of a batch, and a step of
\* batch_screen_resumes
ScreenStepped ==
    \/ call'.op = "screen" /\ call' # call /\ clock' = clock + 1
    \/ batch # NoBatch /\ batch' # NoBatch /\ batch'.next = batch.next + 1
BatchStepped == batch # NoBatch \/ batch' # NoBatch

\* C30: screen_resume and batch_screen_resumes leave config (with the section
\* weights in it), is_trained and binary_classifier as they were, whether the
\* screening returns or raises, and the resumes and the job of a batch are the
\* ones passed in until it returns; only the vectorizer and its flag may change
C30_ScreeningChangesOnlyTheVectorizer ==
    [][/\ (ScreenStepped \/ BatchStepped) =>
             /\ config' = config
             /\ is_trained' = is_trained
             /\ binary_classifier' = binary_classifier
       /\ (batch # NoBatch /\ batch' # NoBatch) =>
             /\ batch'.resumes = batch.resumes
             /\ batch'.job = batch.job
       /\ (batch # NoBatch /\ batch' = NoBatch) =>
             /\ call'.resumes = batch.resumes
             /\ call'.job = batch.job]_vars

\* A screening that raised on a trained pipeline after fitting the vectorizer
C30_Witness ==
    /\ call.op = "screen"
    /\ call.outcome = "raised"
    /\ call.was_trained /\ is_trained
    /\ ~call.pre.fitted /\ vectorizer_fitted

\* A batch that returned with a failed item and a fitted vectorizer
C30_BatchWitness ==
    /\ call.op = "batch"
    /\ \E i \in 1..Len(call.steps) : call.steps[i].outcome = "raised"
    /\ vectorizer_fitted

====
